---- MODULE Spec2Model ----
(***************************************************************************)
(* A model of luco's document tree (class value, class node, class object, *)
(* class array).  A node is a std::variant of three shared_ptr             *)
(* alternatives, so the model keeps a heap of reference-counted cells and  *)
(* represents a node by the alternative it holds and the cell it points    *)
(* to.  std::string is a sequence of one-character strings.                *)
(***************************************************************************)
EXTENDS Integers, Sequences, FiniteSets, TLC

VARIABLES
    roots,  \* the client's node variables: name -> node (node::_node)
    heap,   \* address -> cell: the value / array / object behind a shared_ptr
    vals,   \* the client's luco::value variables: name -> [type, value]
    last,   \* the call that ran last and how it ended
    calls,  \* how many calls the client has made on its nodes
    text,   \* the std::string the client parses and serializes into
    doc,    \* what the parser returned last: a tree, a luco::error, no return
    scan    \* a call of try_parse that is running: its parsing_data and loops

vars == <<roots, heap, vals, last, calls, text, doc, scan>>

----------------------------------------------------------------------------
(* Bounds of the model.                                                    *)

\* number of heap cells that can be live at once
MaxCells == 4
\* longest array and longest string the model builds
MaxLen == 2
\* largest number operator+ adds up to
MaxSum == 3
\* length of the client's program: calls made on the nodes
MaxCalls == 2

(* std::to_string(double) prints six decimals: a double is kept as an      *)
(* integer number of millionths.                                           *)
DScale == 1000000

----------------------------------------------------------------------------
(* class value: the payload variant and the value_type tag.                *)

Payload(alt, s, n, b) == [alt |-> alt, s |-> s, n |-> n, b |-> b]
PStr(s) == Payload("string", s, 0, FALSE)
PInt(n) == Payload("int64", <<>>, n, FALSE)
PDbl(n) == Payload("double", <<>>, n, FALSE)
PBool(b) == Payload("bool", <<>>, 0, b)
PNull == Payload("null_type", <<>>, 0, FALSE)
PMono == Payload("monostate", <<>>, 0, FALSE)

\* enum class value_type
value_type ==
    {"none", "string", "number", "integer", "double_t", "null", "boolean",
     "temp_escape_type", "unknown"}

\* value::value(): an empty value
EmptyValue == [type |-> "none", value |-> PMono]

(* A C++ argument of an allowed value type: its static type and its value. *)
Lit(ctype, s, n, b) == [ctype |-> ctype, s |-> s, n |-> n, b |-> b]
LStr(s) == Lit("string", s, 0, FALSE)
LInt(n) == Lit("int", <<>>, n, FALSE)
LDbl(n) == Lit("double", <<>>, n, FALSE)
LBool(b) == Lit("bool", <<>>, 0, b)
LNull == Lit("null_type", <<>>, 0, FALSE)

\* value::set_state(const val_type&): the tag follows the static type
set_state(val) ==
    IF val.ctype = "bool" THEN [type |-> "boolean", value |-> PBool(val.b)]
    ELSE IF val.ctype \in {"int", "double"}
         THEN [type |-> IF val.ctype = "double" THEN "double_t" ELSE "integer",
               value |-> IF val.ctype = "double" THEN PDbl(val.n) ELSE PInt(val.n)]
    ELSE IF val.ctype = "string" THEN [type |-> "string", value |-> PStr(val.s)]
    ELSE [type |-> "null", value |-> PNull]

Digits == {"0", "1", "2", "3", "4", "5", "6", "7", "8", "9"}
Space == {" ", "\t", "\n"}

DigitVal(c) ==
    CASE c = "0" -> 0 [] c = "1" -> 1 [] c = "2" -> 2 [] c = "3" -> 3
      [] c = "4" -> 4 [] c = "5" -> 5 [] c = "6" -> 6 [] c = "7" -> 7
      [] c = "8" -> 8 [] c = "9" -> 9

RECURSIVE SkipSpace(_)
SkipSpace(s) ==
    IF s # <<>> /\ Head(s) \in Space THEN SkipSpace(Tail(s)) ELSE s

RECURSIVE DigitPrefix(_)
DigitPrefix(s) ==
    IF s # <<>> /\ Head(s) \in Digits
    THEN <<Head(s)>> \o DigitPrefix(Tail(s))
    ELSE <<>>

RECURSIVE DecVal(_)
DecVal(d) ==
    IF d = <<>> THEN 0
    ELSE 10 * DecVal(SubSeq(d, 1, Len(d) - 1)) + DigitVal(d[Len(d)])

RECURSIVE Pow10(_)
Pow10(k) == IF k = 0 THEN 1 ELSE 10 * Pow10(k - 1)

\* the digits of LLONG_MAX, 2^63 - 1
LLongMax ==
    <<"9", "2", "2", "3", "3", "7", "2", "0", "3", "6", "8", "5", "4", "7", "7",
      "5", "8", "0", "7">>

RECURSIVE DropZeros(_)
DropZeros(d) == IF d # <<>> /\ Head(d) = "0" THEN DropZeros(Tail(d)) ELSE d

\* a <= b for two runs of digits of one length
RECURSIVE DigitsLeq(_, _)
DigitsLeq(a, b) ==
    IF a = <<>> THEN TRUE
    ELSE IF DigitVal(Head(a)) # DigitVal(Head(b)) THEN DigitVal(Head(a)) < DigitVal(Head(b))
    ELSE DigitsLeq(Tail(a), Tail(b))

\* the run of digits d, negated when neg, is a long long
FitsLongLong(d, neg) ==
    \E z \in {DropZeros(d)} :
        \/ Len(z) < Len(LLongMax)
        \/ Len(z) = Len(LLongMax)
             /\ \/ DigitsLeq(z, LLongMax)
                \/ neg /\ z = [LLongMax EXCEPT ![Len(LLongMax)] = "8"]

(* std::stoll: leading white space, an optional sign, then the longest run *)
(* of digits; no digit at all throws std::invalid_argument, a number that  *)
(* is no long long throws std::out_of_range.                               *)
stoll(s) ==
    LET t == SkipSpace(s)
        neg == t # <<>> /\ Head(t) = "-"
        u == IF t # <<>> /\ Head(t) \in {"+", "-"} THEN Tail(t) ELSE t
        d == DigitPrefix(u)
    IN  IF d = <<>> \/ ~FitsLongLong(d, neg) THEN [ok |-> FALSE, n |-> 0]
        ELSE [ok |-> TRUE, n |-> IF neg THEN 0 - DecVal(d) ELSE DecVal(d)]

(* std::stod on decimal text without exponent: digits, an optional '.' and *)
(* more digits, at least one digit in all; the result in millionths.       *)
stod(s) ==
    LET t == SkipSpace(s)
        neg == t # <<>> /\ Head(t) = "-"
        u == IF t # <<>> /\ Head(t) \in {"+", "-"} THEN Tail(t) ELSE t
        d1 == DigitPrefix(u)
        r == SubSeq(u, Len(d1) + 1, Len(u))
        d2 == IF r # <<>> /\ Head(r) = "." THEN DigitPrefix(Tail(r)) ELSE <<>>
        f == SubSeq(d2, 1, IF Len(d2) < 6 THEN Len(d2) ELSE 6)
        m == DecVal(d1) * DScale + DecVal(f) * Pow10(6 - Len(f))
    IN  IF d1 = <<>> /\ d2 = <<>> THEN [ok |-> FALSE, n |-> 0]
        ELSE [ok |-> TRUE, n |-> IF neg THEN 0 - m ELSE m]

(* value::set_state(const std::string&, value_type): the tag is written   *)
(* first, then the payload; std::stod / std::stoll may throw in between.  *)
(* The result is the new state of the value and how the call ended.       *)
set_state_str(old, val, t) ==
    LET done(p) == [v |-> [type |-> t, value |-> p], outcome |-> "ok", err |-> "none"]
        thrown == [v |-> [type |-> t, value |-> old.value],
                   outcome |-> "throw", err |-> "std::invalid_argument"]
    IN  CASE t \in {"double_t", "number"} ->
               IF stod(val).ok THEN done(PDbl(stod(val).n)) ELSE thrown
          [] t = "integer" ->
               IF stoll(val).ok THEN done(PInt(stoll(val).n)) ELSE thrown
          [] t = "string" -> done(PStr(val))
          [] t = "boolean" -> done(PBool(val = <<"t", "r", "u", "e">>))
          [] t = "null" -> done(PNull)
          [] t = "none" -> done(PMono)
          [] OTHER -> [v |-> EmptyValue, outcome |-> "error", err |-> "wrong_type"]

\* value::type()
type(v) == v.type

\* value::is_string() ... value::is_empty(): the alternative the variant holds
is_string(v) == v.value.alt = "string"
is_double(v) == v.value.alt = "double"
is_integer(v) == v.value.alt = "int64"
is_number(v) == v.value.alt = "double" \/ v.value.alt = "int64"
is_boolean(v) == v.value.alt = "bool"
is_null(v) == v.value.alt = "null_type"
is_empty(v) == v.value.alt = "monostate"

\* the names of the scalar casts, value::try_as_<cast>()
Casts == {"string", "number", "integer", "double", "boolean", "null"}

Ok(res) == [outcome |-> "ok", err |-> "none", res |-> res]
Err(kind) == [outcome |-> "error", err |-> kind, res |-> PMono]

\* the guard of value::try_as_<cast>()
CastMatches_mut_number(v, cast) ==
    CASE cast = "string" -> is_string(v)
      [] cast = "number" -> is_number(v)
      [] cast = "integer" -> is_number(v)
      [] cast = "double" -> is_number(v)
      [] cast = "boolean" -> is_boolean(v)
      [] cast = "null" -> is_null(v)

CastMatches(v, cast) ==
    CASE cast = "string" -> is_string(v)
      [] cast = "number" -> is_number(v)
      [] cast = "integer" -> is_integer(v)
      [] cast = "double" -> is_double(v)
      [] cast = "boolean" -> is_boolean(v)
      [] cast = "null" -> is_null(v)

(* value::try_as_string() ... value::try_as_null(): the payload, or        *)
(* wrong_type; try_as_number widens an int64 to double.                    *)
value_try_as(v, cast) ==
    IF ~CastMatches(v, cast) THEN Err("wrong_type")
    ELSE IF cast = "number" /\ is_integer(v) THEN Ok(PDbl(v.value.n * DScale))
    ELSE Ok(v.value)

\* std::to_string(int64_t)
DigitChar(d) == <<"0", "1", "2", "3", "4", "5", "6", "7", "8", "9">>[d + 1]

RECURSIVE NatStr(_)
NatStr(n) == IF n < 10 THEN <<DigitChar(n)>> ELSE NatStr(n \div 10) \o <<DigitChar(n % 10)>>

IntStr(n) == IF n < 0 THEN <<"-">> \o NatStr(0 - n) ELSE NatStr(n)

\* std::to_string(double): fixed notation with six decimals
to_string(n) ==
    LET m == IF n < 0 THEN 0 - n ELSE n
        frac == NatStr(DScale + (m % DScale))
    IN  (IF n < 0 THEN <<"-">> ELSE <<>>)
          \o NatStr(m \div DScale) \o <<".">> \o Tail(frac)

(* pop_zeros_at_the_end in value::stringify: the loop from the last index  *)
(* down, i the index looked at (from 0) and found_zero the flag.           *)
RECURSIVE pop_zeros_at_the_end(_, _, _)
pop_zeros_at_the_end(str, i, found_zero) ==
    LET pop == SubSeq(str, 1, Len(str) - 1)
        step(s, f) == IF i = 0 THEN s ELSE pop_zeros_at_the_end(s, i - 1, f)
    IN  IF str[i + 1] = "0" /\ ~found_zero THEN step(str, TRUE)
        ELSE IF str[i + 1] = "0" /\ found_zero THEN step(pop, TRUE)
        ELSE IF found_zero THEN step(pop, FALSE)
        ELSE str

\* value::stringify
stringify(v) ==
    IF is_double(v)
    THEN LET str == to_string(v.value.n)
             cut == pop_zeros_at_the_end(str, Len(str) - 1, FALSE)
         IN  IF cut # <<>> /\ cut[Len(cut)] = "." THEN cut \o <<"0">> ELSE cut
    ELSE IF is_integer(v) THEN IntStr(v.value.n)
    ELSE IF is_string(v) THEN v.value.s
    ELSE IF is_boolean(v)
    THEN (IF v.value.b THEN <<"t", "r", "u", "e">> ELSE <<"f", "a", "l", "s", "e">>)
    ELSE IF is_null(v) THEN <<"n", "u", "l", "l">>
    ELSE <<>>

----------------------------------------------------------------------------
(* class node, class object, class array: nodes, cells and references.     *)

\* the client's node variables and luco::value variables
Handles == {"a", "b"}
ValNames == {"v", "w"}

\* the object keys the client uses, in std::map's (lexicographic) order
KeySeq == << <<"k">>, <<"m">> >>
Keys == {KeySeq[i] : i \in 1..Len(KeySeq)}

Addr == 1..MaxCells
\* addresses a call may use before the cells it drops are released
WorkAddr == 1..(2 * MaxCells + 1)

EmptyMap == [k \in {} |-> 0]

\* luco_node: the alternative held and the cell the shared_ptr points to
Node(alt, ptr) == [alt |-> alt, ptr |-> ptr]

FreeCell == [kind |-> "free", obj |-> EmptyMap, arr |-> <<>>, val |-> EmptyValue]
ObjCell(m) == [kind |-> "object", obj |-> m, arr |-> <<>>, val |-> EmptyValue]
ArrCell(s) == [kind |-> "array", obj |-> EmptyMap, arr |-> s, val |-> EmptyValue]
ValCell(v) == [kind |-> "value", obj |-> EmptyMap, arr |-> <<>>, val |-> v]

\* node::is_value / is_array / is_object: std::holds_alternative
is_value(n) == n.alt = "value"
is_array_mut_not_object(n) == n.alt # "object"
is_array(n) == n.alt = "array"
is_object(n) == n.alt = "object"

\* node::type()
node_type(n) ==
    IF is_value(n) THEN "value" ELSE IF is_array(n) THEN "array" ELSE "object"

(* A reference to a node (node&): a client variable, or the child of one   *)
(* reached with at(key) / at(index).                                       *)
Ref(h, sel, key, idx) == [h |-> h, sel |-> sel, key |-> key, idx |-> idx]
Refs ==
    {Ref(h, "self", <<>>, 0) : h \in Handles}
      \cup {Ref(h, "key", k, 0) : h \in Handles, k \in Keys}
      \cup {Ref(h, "idx", <<>>, 0) : h \in Handles}

\* the reference is one the client can hold: the child exists
ValidRef(rts, hp, r) ==
    CASE r.sel = "self" -> TRUE
      [] r.sel = "key" ->
           is_object(rts[r.h]) /\ r.key \in DOMAIN hp[rts[r.h].ptr].obj
      [] r.sel = "idx" ->
           is_array(rts[r.h]) /\ r.idx < Len(hp[rts[r.h].ptr].arr)

\* the node a reference denotes
Deref(rts, hp, r) ==
    CASE r.sel = "self" -> rts[r.h]
      [] r.sel = "key" -> hp[rts[r.h].ptr].obj[r.key]
      [] r.sel = "idx" -> hp[rts[r.h].ptr].arr[r.idx + 1]

\* `_node = n` through a reference: the variable, or the slot in its parent
Store(rts, hp, r, n) ==
    CASE r.sel = "self" ->
           [roots |-> [rts EXCEPT ![r.h] = n], heap |-> hp]
      [] r.sel = "key" ->
           [roots |-> rts,
            heap |-> [hp EXCEPT ![rts[r.h].ptr].obj[r.key] = n]]
      [] r.sel = "idx" ->
           [roots |-> rts,
            heap |-> [hp EXCEPT ![rts[r.h].ptr].arr[r.idx + 1] = n]]

\* std::make_shared: the lowest free address
NewAddr(hp) ==
    CHOOSE a \in DOMAIN hp :
        /\ hp[a].kind = "free"
        /\ \A b \in DOMAIN hp : hp[b].kind = "free" => a <= b

\* the working heap of a call: the heap with room for what the call allocates
Ext(hp) == [a \in WorkAddr |-> IF a \in DOMAIN hp THEN hp[a] ELSE FreeCell]

\* the nodes a cell holds, in iteration order
RECURSIVE MapNodes(_, _)
MapNodes(m, i) ==
    IF i > Len(KeySeq) THEN <<>>
    ELSE (IF KeySeq[i] \in DOMAIN m THEN <<m[KeySeq[i]]>> ELSE <<>>)
           \o MapNodes(m, i + 1)

CellNodes(c) ==
    IF c.kind = "object" THEN MapNodes(c.obj, 1)
    ELSE IF c.kind = "array" THEN c.arr
    ELSE <<>>

SeqRange(s) == {s[i] : i \in 1..Len(s)}

(* The cells some client variable still owns, in the order a walk from the *)
(* variables meets them.  A shared_ptr releases a cell when its last owner *)
(* goes; the address of a cell is not observable, so the live cells are    *)
(* renumbered in that order.                                               *)
RECURSIVE Walk(_, _, _)
Walk(hp, todo, acc) ==
    IF todo = <<>> THEN acc
    ELSE IF Head(todo) \in SeqRange(acc) THEN Walk(hp, Tail(todo), acc)
    ELSE Walk(hp,
              [i \in 1..Len(CellNodes(hp[Head(todo)])) |->
                  CellNodes(hp[Head(todo)])[i].ptr] \o Tail(todo),
              Append(acc, Head(todo)))

LiveOrder(rts, hp) == Walk(hp, <<rts["a"].ptr, rts["b"].ptr>>, <<>>)

IndexOf(s, x) == CHOOSE i \in 1..Len(s) : s[i] = x

Release(rts, hp) ==
    LET ord == LiveOrder(rts, hp)
        mv(n) == Node(n.alt, IndexOf(ord, n.ptr))
        cell(c) == [c EXCEPT !.obj = [k \in DOMAIN c.obj |-> mv(c.obj[k])],
                             !.arr = [i \in 1..Len(c.arr) |-> mv(c.arr[i])]]
    IN  [n |-> Len(ord),
         roots |-> [h \in Handles |-> mv(rts[h])],
         heap |-> [a \in Addr |->
                     IF a <= Len(ord) THEN cell(hp[ord[a]]) ELSE FreeCell]]

(* The tree below a node, to a depth no acyclic tree of live cells reaches: *)
(* two nodes are structurally equal when their trees are equal.            *)
RECURSIVE Tree(_, _, _)
Tree(hp, n, d) ==
    IF d = 0
    THEN [kind |-> "cut", val |-> EmptyValue, obj |-> EmptyMap, arr |-> <<>>]
    ELSE [kind |-> n.alt,
          val |-> hp[n.ptr].val,
          obj |-> [k \in DOMAIN hp[n.ptr].obj |-> Tree(hp, hp[n.ptr].obj[k], d - 1)],
          arr |-> [i \in 1..Len(hp[n.ptr].arr) |-> Tree(hp, hp[n.ptr].arr[i], d - 1)]]

TreeOf(hp, n) == Tree(hp, n, MaxCells + 1)

----------------------------------------------------------------------------
(* What the client passes to a constructor, set, operator=, insert and     *)
(* push_back: a scalar, a node, a sequence container or a key/value        *)
(* container; the elements of a container or of an initializer list are    *)
(* scalars or nodes ("bad": a std::any of a type handle_std_any rejects).  *)

Item(key, t, x, r) == [key |-> key, t |-> t, x |-> x, r |-> r]
NoRef == Ref("a", "self", <<>>, 0)
ItemLit(x) == Item(<<>>, "lit", x, NoRef)
ItemNode(r) == Item(<<>>, "node", LNull, r)
ItemBad == Item(<<>>, "bad", LNull, NoRef)
Pair(key, it) == [it EXCEPT !.key = key]

Src(t, x, r, items) == [t |-> t, x |-> x, r |-> r, items |-> items]
SrcLit(x) == Src("lit", x, NoRef, <<>>)
SrcNode(r) == Src("node", LNull, r, <<>>)
SrcSeq(items) == Src("seq", LNull, NoRef, items)
SrcMap(items) == Src("map", LNull, NoRef, items)

\* the scalars the client passes to class value
ScalarInputs ==
    {LInt(1), LDbl(1500000), LDbl(5000000), LDbl(1050000), LDbl(10000000),
     LStr(<<"s">>), LBool(TRUE), LNull}

\* std::vector<int>{1, 2}, std::vector<luco::node>{a}
SeqInputs ==
    {<<ItemLit(LInt(1)), ItemLit(LInt(2))>>,
     <<ItemNode(Ref("a", "self", <<>>, 0))>>}

\* std::map<std::string, int>{{"k", 1}, {"m", 2}}, std::map<std::string, node>{{"k", b}}
MapInputs ==
    {<<Pair(KeySeq[1], ItemLit(LInt(1))), Pair(KeySeq[2], ItemLit(LInt(2)))>>,
     <<Pair(KeySeq[1], ItemNode(Ref("b", "self", <<>>, 0)))>>}

(* What the client passes to a node: 1, "s", true, a or b, or a container. *)
(* A null, a double and an empty value reach a node through an             *)
(* initializer list, operator+ and node(node_type).                        *)
Srcs ==
    {SrcLit(x) : x \in {LInt(1), LStr(<<"s">>), LBool(TRUE)}}
      \cup {SrcNode(Ref(h, "self", <<>>, 0)) : h \in Handles}
      \cup {SrcSeq(c) : c \in SeqInputs}
      \cup {SrcMap(c) : c \in MapInputs}

\* the initializer lists the client passes to operator+=
PairLists ==
    {<<Pair(KeySeq[1], ItemLit(LStr(<<"s">>)))>>,
     <<Pair(KeySeq[1], ItemLit(LInt(1))), Pair(KeySeq[2], ItemBad)>>,
     <<Pair(KeySeq[2], ItemNode(Ref("b", "self", <<>>, 0)))>>,
     <<Pair(KeySeq[1], ItemLit(LInt(1))), Pair(KeySeq[2], ItemNode(Ref("a", "self", <<>>, 0)))>>}
ValueLists ==
    {<<ItemLit(LNull)>>,
     <<ItemLit(LInt(1)), ItemBad>>,
     <<ItemNode(Ref("b", "self", <<>>, 0))>>}

ValidItems(rts, hp, items) ==
    \A i \in 1..Len(items) :
        items[i].t = "node" => ValidRef(rts, hp, items[i].r)

ValidSrc(rts, hp, src) ==
    /\ src.t = "node" => ValidRef(rts, hp, src.r)
    /\ ValidItems(rts, hp, src.items)

\* std::make_shared<class value>(v)
NewValue(hp, v) ==
    [node |-> Node("value", NewAddr(hp)),
     heap |-> [hp EXCEPT ![NewAddr(hp)] = ValCell(v)]]

(* The node an element becomes: handle_allowed_node_types and node(value)  *)
(* for a scalar, a copy of the node (the same cell) for a node.  `pre` is  *)
(* the state the client built the argument in.                             *)
ElementNode(pre, hp, it) ==
    IF it.t = "node"
    THEN [node |-> Deref(pre.roots, pre.heap, it.r), heap |-> hp]
    ELSE NewValue(hp, set_state(it.x))

\* object::insert: _object[key] = element
object_insert(hp, p, key, n) ==
    [hp EXCEPT ![p].obj =
        [k \in DOMAIN @ \cup {key} |-> IF k = key THEN n ELSE @[k]]]

\* array::push_back
array_push_back(hp, p, n) == [hp EXCEPT ![p].arr = Append(@, n)]

\* the loops of setting_allowed_node_type over a container's elements
RECURSIVE PushAll(_, _, _, _)
PushAll(pre, hp, p, items) ==
    IF items = <<>> THEN hp
    ELSE LET e == ElementNode(pre, hp, Head(items))
         IN  PushAll(pre, array_push_back(e.heap, p, e.node), p, Tail(items))

RECURSIVE InsertAll(_, _, _, _)
InsertAll(pre, hp, p, items) ==
    IF items = <<>> THEN hp
    ELSE LET e == ElementNode(pre, hp, Head(items))
         IN  InsertAll(pre, object_insert(e.heap, p, Head(items).key, e.node),
                       p, Tail(items))

(* node::setting_allowed_node_type: the node `_node` becomes, and the heap *)
(* with the cells made for it.                                             *)
setting_allowed_node_type(pre, hp, src) ==
    CASE src.t = "seq" ->
           [node |-> Node("array", NewAddr(hp)),
            heap |-> PushAll(pre, [hp EXCEPT ![NewAddr(hp)] = ArrCell(<<>>)],
                             NewAddr(hp), src.items)]
      [] src.t = "map" ->
           [node |-> Node("object", NewAddr(hp)),
            heap |-> InsertAll(pre, [hp EXCEPT ![NewAddr(hp)] = ObjCell(EmptyMap)],
                               NewAddr(hp), src.items)]
      [] src.t = "lit" -> NewValue(hp, set_state(src.x))
      [] src.t = "node" ->
           [node |-> Deref(pre.roots, pre.heap, src.r), heap |-> hp]

\* node::node(enum node_type)
node_of_type(hp, t) ==
    CASE t = "value" ->
           [node |-> Node("value", NewAddr(hp)),
            heap |-> [hp EXCEPT ![NewAddr(hp)] = ValCell(EmptyValue)]]
      [] t = "array" ->
           [node |-> Node("array", NewAddr(hp)),
            heap |-> [hp EXCEPT ![NewAddr(hp)] = ArrCell(<<>>)]]
      [] t = "object" ->
           [node |-> Node("object", NewAddr(hp)),
            heap |-> [hp EXCEPT ![NewAddr(hp)] = ObjCell(EmptyMap)]]

\* node::try_as_value / try_as_array / try_as_object
node_try_as(n, alt) ==
    IF n.alt # alt THEN Err("wrong_type") ELSE Ok(PMono)

\* node::contains
contains(hp, n, key) ==
    IF ~is_object(n) THEN FALSE ELSE key \in DOMAIN hp[n.ptr].obj

\* object::size / array::size behind as_object() / as_array()
size(hp, n) ==
    IF is_object(n) THEN Cardinality(DOMAIN hp[n.ptr].obj) ELSE Len(hp[n.ptr].arr)

----------------------------------------------------------------------------
(* The calls on a node.  Each is a function of the tree it is made on and  *)
(* its arguments: the variables and the heap it leaves, and how it ends.   *)
(* The heap it leaves has room for the cells the call made (Ext).          *)

Effect(rts, hp, outcome, err) ==
    [roots |-> rts, heap |-> hp, outcome |-> outcome, err |-> err]

\* the state the client built an argument in
State(rts, hp) == [roots |-> rts, heap |-> hp]

RootRef(h) == Ref(h, "self", <<>>, 0)

node_ctor_mut_array(rts, hp, h) ==
    LET c == node_of_type(Ext(hp), "array")
    IN  Effect([rts EXCEPT ![h] = c.node], c.heap, "ok", "none")

\* luco::node h;
node_ctor(rts, hp, h) ==
    LET c == node_of_type(Ext(hp), "object")
    IN  Effect([rts EXCEPT ![h] = c.node], c.heap, "ok", "none")

\* luco::node h(type);
node_ctor_type(rts, hp, h, t) ==
    LET c == node_of_type(Ext(hp), t)
    IN  Effect([rts EXCEPT ![h] = c.node], c.heap, "ok", "none")

\* luco::node h(x);
node_ctor_from(rts, hp, h, src) ==
    LET c == setting_allowed_node_type(State(rts, hp), Ext(hp), src)
    IN  Effect([rts EXCEPT ![h] = c.node], c.heap, "ok", "none")

\* r.set(x)
set(rts, hp, r, src) ==
    LET c == setting_allowed_node_type(State(rts, hp), Ext(hp), src)
        s == Store(rts, c.heap, r, c.node)
    IN  Effect(s.roots, s.heap, "ok", "none")

operator_assign_mut_reset(rts, hp, r, src) ==
    IF src.t = "node" /\ src.r = r
    THEN LET c == node_of_type(Ext(hp), "object")
             s == Store(rts, c.heap, r, c.node)
         IN  Effect(s.roots, s.heap, "ok", "none")
    ELSE set(rts, hp, r, src)

\* r = x: nothing is done when x is r itself
operator_assign(rts, hp, r, src) ==
    IF src.t = "node" /\ src.r = r
    THEN Effect(rts, Ext(hp), "ok", "none")
    ELSE set(rts, hp, r, src)

insert_mut_any_kind(rts, hp, r, key, src) ==
    LET c == setting_allowed_node_type(State(rts, hp), Ext(hp), src)
    IN  Effect(rts, object_insert(c.heap, Deref(rts, hp, r).ptr, key, c.node),
               "ok", "none")

\* r.insert(key, x)
insert(rts, hp, r, key, src) ==
    IF ~is_object(Deref(rts, hp, r))
    THEN Effect(rts, Ext(hp), "error", "wrong_type")
    ELSE LET c == setting_allowed_node_type(State(rts, hp), Ext(hp), src)
         IN  Effect(rts, object_insert(c.heap, Deref(rts, hp, r).ptr, key, c.node),
                    "ok", "none")

\* r.push_back(x): the node is built from x before the kind of r is looked at
push_back(rts, hp, r, src) ==
    LET c == setting_allowed_node_type(State(rts, hp), Ext(hp), src)
    IN  IF ~is_array(Deref(rts, hp, r))
        THEN Effect(rts, Ext(hp), "error", "wrong_type")
        ELSE Effect(rts, array_push_back(c.heap, Deref(rts, hp, r).ptr, c.node),
                    "ok", "none")

(* The loop over an initializer list: handle_std_any hands each element to *)
(* insert_func and throws wrong_type at an element of an unknown type, and *)
(* the elements before it stay.                                            *)
RECURSIVE handle_std_any(_, _, _, _)
handle_std_any(pre, hp, n, items) ==
    IF items = <<>> THEN [heap |-> hp, outcome |-> "ok", err |-> "none"]
    ELSE IF Head(items).t = "bad"
    THEN [heap |-> hp, outcome |-> "throw", err |-> "wrong_type"]
    ELSE LET e == ElementNode(pre, hp, Head(items))
         IN  handle_std_any(pre,
                 IF is_object(n)
                 THEN object_insert(e.heap, n.ptr, Head(items).key, e.node)
                 ELSE array_push_back(e.heap, n.ptr, e.node),
                 n, Tail(items))

(* luco::node h = {{key, x}, ...};  luco::node h = {x, ...};  a constructor *)
(* that throws leaves no node: the variable is not replaced.               *)
node_ctor_list(rts, hp, h, alt, items) ==
    LET c == node_of_type(Ext(hp), alt)
        d == handle_std_any(State(rts, hp), c.heap, c.node, items)
    IN  IF d.outcome = "ok"
        THEN Effect([rts EXCEPT ![h] = c.node], d.heap, "ok", "none")
        ELSE Effect(rts, Ext(hp), d.outcome, d.err)

\* r += {{key, x}, ...};  r += {x, ...};
operator_plus_eq(rts, hp, r, alt, items) ==
    IF Deref(rts, hp, r).alt # alt
    THEN Effect(rts, Ext(hp), "throw", "wrong_type")
    ELSE LET d == handle_std_any(State(rts, hp), Ext(hp), Deref(rts, hp, r), items)
         IN  Effect(rts, d.heap, d.outcome, d.err)

\* value::as_number(): the double, or the int64 widened
AsNumber(v) == IF is_double(v) THEN v.value.n ELSE v.value.n * DScale

(* node::operator+ on two values: the branch is chosen by the tag of the   *)
(* left value, and as_string() / as_number() throw wrong_type.             *)
plus_values(v1, v2) ==
    IF v1.type = "string"
    THEN IF is_string(v1) /\ is_string(v2)
         THEN Ok(LStr(v1.value.s \o v2.value.s))
         ELSE [outcome |-> "throw", err |-> "wrong_type", res |-> LNull]
    ELSE IF v1.type \in {"double_t", "integer"}
    THEN IF is_number(v1) /\ is_number(v2)
         THEN Ok(LDbl(AsNumber(v1) + AsNumber(v2)))
         ELSE [outcome |-> "throw", err |-> "wrong_type", res |-> LNull]
    ELSE [outcome |-> "throw", err |-> "wrong_type", res |-> LNull]

\* the loops of operator+ over the entries of an object, in std::map's order
RECURSIVE InsertEntries(_, _, _, _)
InsertEntries(hp, p, m, i) ==
    IF i > Len(KeySeq) THEN hp
    ELSE InsertEntries(
             IF KeySeq[i] \in DOMAIN m
             THEN object_insert(hp, p, KeySeq[i], m[KeySeq[i]])
             ELSE hp,
             p, m, i + 1)

\* the loops of operator+ over the elements of an array
RECURSIVE PushElements(_, _, _)
PushElements(hp, p, elems) ==
    IF elems = <<>> THEN hp
    ELSE PushElements(array_push_back(hp, p, Head(elems)), p, Tail(elems))

plus_mut_left_wins(hp, n1, n2) ==
    IF node_type(n1) # node_type(n2)
    THEN [outcome |-> "throw", err |-> "wrong_type", node |-> n1, heap |-> hp]
    ELSE IF is_object(n1)
    THEN LET c == node_of_type(hp, "object")
             h1 == InsertEntries(c.heap, c.node.ptr, hp[n2.ptr].obj, 1)
             h2 == InsertEntries(h1, c.node.ptr, hp[n1.ptr].obj, 1)
         IN  [outcome |-> "ok", err |-> "none", node |-> c.node, heap |-> h2]
    ELSE IF is_array(n1)
    THEN LET c == node_of_type(hp, "array")
             h1 == PushElements(c.heap, c.node.ptr, hp[n1.ptr].arr)
         IN  [outcome |-> "ok", err |-> "none", node |-> c.node, heap |-> h1]
    ELSE [outcome |-> "throw", err |-> "wrong_type", node |-> n1, heap |-> hp]

plus_mut_drop_right(hp, n1, n2) ==
    IF node_type(n1) # node_type(n2)
    THEN [outcome |-> "throw", err |-> "wrong_type", node |-> n1, heap |-> hp]
    ELSE LET c == node_of_type(hp, node_type(n1))
             h1 == InsertEntries(c.heap, c.node.ptr, hp[n1.ptr].obj, 1)
         IN  [outcome |-> "ok", err |-> "none", node |-> c.node, heap |-> h1]

\* node::operator+: the new node and the heap, or the error thrown
plus(hp, n1, n2) ==
    IF node_type(n1) # node_type(n2)
    THEN [outcome |-> "throw", err |-> "wrong_type", node |-> n1, heap |-> hp]
    ELSE IF is_object(n1)
    THEN LET c == node_of_type(hp, "object")
             h1 == InsertEntries(c.heap, c.node.ptr, hp[n1.ptr].obj, 1)
             h2 == InsertEntries(h1, c.node.ptr, hp[n2.ptr].obj, 1)
         IN  [outcome |-> "ok", err |-> "none", node |-> c.node, heap |-> h2]
    ELSE IF is_array(n1)
    THEN LET c == node_of_type(hp, "array")
             h1 == PushElements(c.heap, c.node.ptr, hp[n1.ptr].arr)
             h2 == PushElements(h1, c.node.ptr, hp[n2.ptr].arr)
         IN  [outcome |-> "ok", err |-> "none", node |-> c.node, heap |-> h2]
    ELSE LET p == plus_values(hp[n1.ptr].val, hp[n2.ptr].val)
             c == NewValue(hp, set_state(p.res))
         IN  IF p.outcome = "ok"
             THEN [outcome |-> "ok", err |-> "none", node |-> c.node, heap |-> c.heap]
             ELSE [outcome |-> p.outcome, err |-> p.err, node |-> n1, heap |-> hp]

\* the sizes operator+ may reach in the model
PlusFits(hp, n) ==
    /\ is_array(n) => Len(hp[n.ptr].arr) <= MaxLen
    /\ is_value(n) /\ is_string(hp[n.ptr].val) => Len(hp[n.ptr].val.value.s) <= MaxLen
    /\ is_value(n) /\ is_number(hp[n.ptr].val) => hp[n.ptr].val.value.n <= MaxSum * DScale

\* luco::node h = r1 + r2;
operator_plus(rts, hp, h, r1, r2) ==
    LET p == plus(Ext(hp), Deref(rts, hp, r1), Deref(rts, hp, r2))
    IN  IF p.outcome = "ok"
        THEN Effect([rts EXCEPT ![h] = p.node], p.heap, "ok", "none")
        ELSE Effect(rts, Ext(hp), p.outcome, p.err)

----------------------------------------------------------------------------
(* The accessors: how each ends, and the node or the scalar it hands back. *)
(* A throwing form throws the luco::error its try_ form returns.           *)

Thrown(kind) == [outcome |-> "throw", err |-> kind, res |-> PMono]
Raise(e) == IF e.outcome = "error" THEN Thrown(e.err) ELSE e

\* node::try_at(const std::string&)
try_at_key(hp, n, key) ==
    IF ~is_object(n) THEN Err("wrong_type")
    ELSE IF key \notin DOMAIN hp[n.ptr].obj THEN Err("key_not_found")
    ELSE Ok(hp[n.ptr].obj[key])

at_key_mut_wrong_type(hp, n, key) ==
    IF ~is_object(n) \/ key \notin DOMAIN hp[n.ptr].obj THEN Thrown("wrong_type")
    ELSE Ok(hp[n.ptr].obj[key])

\* node::at(const std::string&)
at_key(hp, n, key) ==
    IF ~is_object(n) THEN Thrown("wrong_type")
    ELSE IF key \notin DOMAIN hp[n.ptr].obj THEN Thrown("key_not_found")
    ELSE Ok(hp[n.ptr].obj[key])

\* node::at(size_t)
at_index(hp, n, i) ==
    IF ~is_array(n) THEN Thrown("wrong_type")
    ELSE IF i >= Len(hp[n.ptr].arr) THEN Thrown("key_not_found")
    ELSE Ok(hp[n.ptr].arr[i + 1])

(* node::try_at(size_t) noexcept: array::at is std::vector::at, whose      *)
(* std::out_of_range cannot leave a noexcept function: std::terminate.     *)
try_at_index(hp, n, i) ==
    IF ~is_array(n) THEN Err("key_not_found")
    ELSE IF i >= Len(hp[n.ptr].arr)
    THEN [outcome |-> "terminate", err |-> "std::out_of_range", res |-> PMono]
    ELSE Ok(hp[n.ptr].arr[i + 1])

\* node::try_as_string() ... node::try_as_null(), through access_value
node_try_as_cast(hp, n, cast) ==
    IF ~is_value(n) THEN Err("wrong_type")
    ELSE value_try_as(hp[n.ptr].val, cast)

----------------------------------------------------------------------------
(* parser.hpp: the string parser.  struct parsing_data is a record: the    *)
(* chunk being read (line), the index in it (i, from 0), the stacks (top   *)
(* last), the escape tuple and the raw value.  The document being built is *)
(* a tree, and luco_objs holds, for each open container, the path to it    *)
(* (a node* into the tree).  A predicate that reads a character through    *)
(* token::is_escaped changes the escape tuple: it returns the data it      *)
(* leaves (d) with its result (r).  Then(v, F) is F on the value v: the    *)
(* statements of a function body one after the other.                      *)

\* v is evaluated once, then F is applied to its value
Then(v, F(_)) == CHOOSE r \in {F(w) : w \in {v}} : TRUE

special_chars == {"{", "=", "}", "\"", "'", "\\"}

\* the escape tuple as constructed: (0, false, '\0')
NoEscape == [pos |-> 0, append |-> FALSE, ch |-> "NUL"]

\* data.line[data.i]; std::string::operator[] at size() is '\0'
CharAt(d) == IF d.i < Len(d.line) THEN d.line[d.i + 1] ELSE "NUL"

Res(d, r) == [d |-> d, r |-> r]

is_escaped(d, ch) ==
    LET here == d.line_number * d.i
        esc(a) == [d EXCEPT !.esc = [pos |-> here, append |-> a, ch |-> ch]]
    IN  IF d.i + 1 < Len(d.line) /\ d.line[d.i + 2] = ch
        THEN IF ch \notin special_chars
             THEN Res([d EXCEPT !.esc = NoEscape], FALSE)
             ELSE Res(esc(d.esc.ch = ch /\ d.esc.pos # here /\ d.esc.pos # 0), TRUE)
        ELSE IF d.esc.ch = ch /\ ~d.esc.append THEN Res(esc(TRUE), TRUE)
        ELSE Res([d EXCEPT !.esc = NoEscape], FALSE)

delimiter(d, ch) ==
    IF CharAt(d) = ch
    THEN Then(is_escaped(d, ch), LAMBDA e : Res(e.d, ~e.r))
    ELSE Res(d, FALSE)

\* the characters of a std::set<char> are distinct: one of them at most is
\* the character read
handle_not(d, not_chars) ==
    IF CharAt(d) \notin not_chars THEN Res(d, TRUE)
    ELSE IF CharAt(d) \in special_chars THEN is_escaped(d, CharAt(d))
    ELSE Res(d, FALSE)

\* the characters of each class's multimap are distinct as well: true at a
\* character of it that is not escaped
handle_expected(d, expected) ==
    IF CharAt(d) \notin expected THEN Res(d, FALSE)
    ELSE IF CharAt(d) \notin special_chars THEN Res(d, TRUE)
    ELSE Then(is_escaped(d, CharAt(d)), LAMBDA e : Res(e.d, ~e.r))

Top(s) == s[Len(s)]
Pop(s) == SubSeq(s, 1, Len(s) - 1)

handle_is(d, is_tokens) == d.hier # <<>> /\ Top(d.hier) \in is_tokens

token_is_empty(ch) == ch \in {" ", "\t"}
is_newline(ch) == ch = "\n"
is_empty_newline(ch) == ch \in {" ", "\t", "\n"}

register_token(d, token_type) == [d EXCEPT !.hier = Append(@, token_type)]
is_registered_token(d, token_type) == d.hier # <<>> /\ Top(d.hier) = token_type
unregister_token(d) == [d EXCEPT !.hier = Pop(@)]

\* luco_simple_types::is_number: "none", "_int" or "_float"
RECURSIVE CountDots(_)
CountDots(s) ==
    IF s = <<>> THEN 0
    ELSE (IF Head(s) = "." THEN 1 ELSE 0) + CountDots(Tail(s))

simple_is_number(data) ==
    IF data = <<>> THEN "none"
    ELSE IF \E j \in 1..Len(data) : data[j] \notin Digits \cup {"."} THEN "none"
    ELSE IF CountDots(data) > 1 THEN "none"
    ELSE IF CountDots(data) = 0 THEN "_int"
    ELSE "_float"

simple_is_boolean(data) ==
    IF data \in {<<"o", "n">>, <<"t", "r", "u", "e">>} THEN "_true"
    ELSE IF data \in {<<"o", "f", "f">>, <<"f", "a", "l", "s", "e">>} THEN "_false"
    ELSE "none"

simple_is_null(data) == data = <<"n", "u", "l", "l">>

(* luco_simple_types::get_type: the scalar a raw value denotes.  std::stod *)
(* throws std::invalid_argument at text without a digit (".").             *)
get_type(raw_value) ==
    IF simple_is_null(raw_value) THEN [ok |-> TRUE, x |-> LNull]
    ELSE IF simple_is_number(raw_value) = "_int"
         THEN [ok |-> stoll(raw_value).ok, x |-> LInt(stoll(raw_value).n)]
    ELSE IF simple_is_number(raw_value) = "_float"
         THEN [ok |-> stod(raw_value).ok, x |-> LDbl(stod(raw_value).n)]
    ELSE IF simple_is_boolean(raw_value) # "none"
         THEN [ok |-> TRUE, x |-> LBool(simple_is_boolean(raw_value) = "_true")]
    ELSE [ok |-> TRUE, x |-> LStr(raw_value)]

\* a strip that leaves the blanks at the end
strip_mut_keep_blanks(data, t) == data

RECURSIVE strip_if_unqouted_string(_, _)
strip_if_unqouted_string(data, t) ==
    IF t # "unqouted_string" \/ data = <<>> \/ ~token_is_empty(data[Len(data)])
    THEN data
    ELSE IF Len(data) = 1 THEN data
    ELSE IF token_is_empty(data[Len(data) - 1])
         THEN strip_if_unqouted_string(SubSeq(data, 1, Len(data) - 1), t)
    ELSE SubSeq(data, 1, Len(data) - 1)

append_string(d, t, ch) ==
    Then(delimiter(d, "{"), LAMBDA a :
    IF a.r THEN Res(a.d, FALSE) ELSE
    Then(delimiter(a.d, "}"), LAMBDA b :
    IF b.r THEN Res(b.d, FALSE)
    ELSE IF ~is_newline(ch) /\ t = "unqouted_string" THEN Res(b.d, TRUE) ELSE
    Then(delimiter(b.d, "\""), LAMBDA c :
    IF ~c.r /\ t = "qouted_string_2" THEN Res(c.d, TRUE) ELSE
    Then(delimiter(c.d, "'"), LAMBDA e :
    Res(e.d, ~e.r /\ t = "qouted_string_1")))))

expected_multi_line_string(t) ==
    t \in {"escaped_string_newline_qouted_1", "escaped_string_newline_qouted_2",
           "escaped_string_newline_unqouted"}

end_of_string(t) == t \in {"end_string_1", "end_string_2", "end_string_unqouted"}

\* the data it leaves (d), the key_value_type it leaves (t), the result (r)
Res3(d, t, r) == [d |-> d, t |-> t, r |-> r]

handle_empty_in_string(d, t, ch) ==
    IF is_empty_newline(ch) /\ (t = "none" \/ expected_multi_line_string(t))
    THEN Res3(d, t, FALSE)
    ELSE IF d.esc.pos # 0
    THEN IF ~d.esc.append THEN Res3(d, t, FALSE)
         ELSE Res3([d EXCEPT !.esc = NoEscape],
                   IF t = "none" THEN "unqouted_string" ELSE t, TRUE)
    ELSE
    Then(delimiter(d, "\\"), LAMBDA bs :
    IF bs.r
    THEN Res3(bs.d,
              IF t = "end_string_1" THEN "escaped_string_newline_qouted_1"
              ELSE IF t = "end_string_2" THEN "escaped_string_newline_qouted_2"
              ELSE "escaped_string_newline_unqouted",
              FALSE)
    ELSE IF t = "escaped_string_newline_qouted_1"
    THEN Then(delimiter(bs.d, "'"), LAMBDA q :
         Res3(q.d, IF q.r THEN "qouted_string_1" ELSE t, FALSE))
    ELSE IF t = "escaped_string_newline_qouted_2"
    THEN Then(delimiter(bs.d, "\""), LAMBDA q :
         Res3(q.d, IF q.r THEN "qouted_string_2" ELSE t, FALSE))
    ELSE IF t = "escaped_string_newline_unqouted"
    THEN Res3(bs.d, "unqouted_string", TRUE)
    ELSE
    Then(append_string(bs.d, t, ch), LAMBDA ap :
    IF ap.r THEN Res3(ap.d, t, TRUE)
    ELSE IF t = "none"
    THEN Then(delimiter(ap.d, "'"), LAMBDA n1 :
         IF n1.r THEN Res3(n1.d, "qouted_string_1", FALSE) ELSE
         Then(delimiter(n1.d, "\""), LAMBDA n2 :
         IF n2.r THEN Res3(n2.d, "qouted_string_2", FALSE) ELSE
         Then(delimiter(n2.d, "{"), LAMBDA n3 :
         IF n3.r THEN Res3(n3.d, t, FALSE) ELSE
         Then(delimiter(n3.d, "}"), LAMBDA n4 :
         IF n4.r THEN Res3(n4.d, t, FALSE)
         ELSE Res3(n4.d, "unqouted_string", TRUE)))))
    ELSE IF t \in {"end_string_1", "end_string_2"} THEN Res3(ap.d, t, FALSE)
    ELSE
    Then(delimiter(ap.d, "'"), LAMBDA e1 :
    IF e1.r /\ t = "qouted_string_1" THEN Res3(e1.d, "end_string_1", TRUE) ELSE
    Then(delimiter(e1.d, "\""), LAMBDA e2 :
    IF e2.r /\ t = "qouted_string_2" THEN Res3(e2.d, "end_string_2", TRUE)
    ELSE IF is_newline(CharAt(e2.d)) /\ t = "unqouted_string"
    THEN Res3(e2.d, "end_string_unqouted", TRUE)
    ELSE Res3(e2.d, t, FALSE)))))

\* luco::node(node_type::object), luco::node(node_type::array), node(value)
ObjTree == [kind |-> "object", val |-> EmptyValue, obj |-> EmptyMap, arr |-> <<>>]
ArrTree == [kind |-> "array", val |-> EmptyValue, obj |-> EmptyMap, arr |-> <<>>]
ValTree(v) == [kind |-> "value", val |-> v, obj |-> EmptyMap, arr |-> <<>>]

\* a step of a node*: the key of an object's child or the index of an array's
Step(key, idx) == [key |-> key, idx |-> idx]

RECURSIVE TreeAt(_, _)
TreeAt(t, path) ==
    IF path = <<>> THEN t
    ELSE IF t.kind = "object" THEN TreeAt(t.obj[Head(path).key], Tail(path))
    ELSE TreeAt(t.arr[Head(path).idx], Tail(path))

RECURSIVE TreeSet(_, _, _)
TreeSet(t, path, new) ==
    IF path = <<>> THEN new
    ELSE IF t.kind = "object"
    THEN [t EXCEPT !.obj[Head(path).key] = TreeSet(@, Tail(path), new)]
    ELSE [t EXCEPT !.arr[Head(path).idx] = TreeSet(@, Tail(path), new)]

\* data.luco_objs.top()->insert(key, n): the document and the path to the
\* child, or wrong_type when the open container is not an object
top_insert(d, key, n) ==
    Then(TreeAt(d.root, Top(d.objs)), LAMBDA t :
    IF t.kind # "object" THEN [ok |-> FALSE, d |-> d, path |-> <<>>]
    ELSE [ok |-> TRUE,
          d |-> [d EXCEPT !.root =
                    TreeSet(@, Top(d.objs),
                            [t EXCEPT !.obj = [k \in DOMAIN t.obj \cup {key} |->
                                                IF k = key THEN n ELSE t.obj[k]]])],
          path |-> Append(Top(d.objs), Step(key, 0))])

\* a push_back that puts the element in front
top_push_back_mut_front(d, n) ==
    Then(TreeAt(d.root, Top(d.objs)), LAMBDA t :
    IF t.kind # "array" THEN [ok |-> FALSE, d |-> d, path |-> <<>>]
    ELSE [ok |-> TRUE,
          d |-> [d EXCEPT !.root =
                    TreeSet(@, Top(d.objs), [t EXCEPT !.arr = <<n>> \o @])],
          path |-> Append(Top(d.objs), Step(<<>>, 1))])

top_push_back(d, n) ==
    Then(TreeAt(d.root, Top(d.objs)), LAMBDA t :
    IF t.kind # "array" THEN [ok |-> FALSE, d |-> d, path |-> <<>>]
    ELSE [ok |-> TRUE,
          d |-> [d EXCEPT !.root =
                    TreeSet(@, Top(d.objs), [t EXCEPT !.arr = Append(@, n)])],
          path |-> Append(Top(d.objs), Step(<<>>, Len(t.arr) + 1))])

\* insert into an open object, push_back into an open array
top_add(d, n) ==
    IF TreeAt(d.root, Top(d.objs)).kind = "object"
    THEN top_insert(d, Top(d.keys).first, n)
    ELSE top_push_back(d, n)

\* what handle_token returns: true, false or an error
Tok(d, r) == [d |-> d, r |-> IF r THEN "true" ELSE "false", err |-> "none"]
TokErr(d, kind) == [d |-> d, r |-> "error", err |-> kind]

RawPair(first, second) == [first |-> first, second |-> second]

comment_handle_token(d) ==
    Then(delimiter(d, "#"), LAMBDA it :
    Then(IF ~it.r /\ it.d.hier # <<>> /\ Top(it.d.hier) = "nested_comment"
         THEN delimiter(it.d, "}") ELSE Res(it.d, FALSE), LAMBDA cb :
    Then(IF it.r THEN register_token(it.d, "comment") ELSE cb.d, LAMBDA d0 :
    IF /\ ~it.r
       /\ it.d.hier # <<>>
       /\ \/ Top(it.d.hier) = "comment" /\ CharAt(it.d) = "\n"
          \/ Top(it.d.hier) = "nested_comment" /\ cb.r /\ it.d.cbc = 0
    THEN Tok(unregister_token(
                [d0 EXCEPT !.shift = IF Top(d0.hier) # "nested_comment"
                                     THEN TRUE ELSE @]), TRUE)
    ELSE IF is_registered_token(d0, "comment")
    THEN Then(delimiter(d0, "{"), LAMBDA ob :
         Tok(IF ob.r THEN register_token(unregister_token(ob.d), "nested_comment")
             ELSE ob.d, TRUE))
    ELSE IF is_registered_token(d0, "nested_comment")
    THEN Then(delimiter(d0, "{"), LAMBDA ob :
         IF ob.r THEN Tok([ob.d EXCEPT !.cbc = @ + 1], TRUE) ELSE
         Then(delimiter(ob.d, "}"), LAMBDA cl :
         Tok(IF cl.r /\ cl.d.cbc > 0 THEN [cl.d EXCEPT !.cbc = @ - 1] ELSE cl.d,
             TRUE)))
    ELSE Tok(d0, FALSE))))

\* the tail of opening_bracket::handle_token and of luco_key::handle_token:
\* handle_empty_in_string on the raw value (or the key on top), and the
\* character appended unless it ended the string
read_raw(d) ==
    Then(handle_empty_in_string(d, d.raw.second, CharAt(d)), LAMBDA h :
    Tok([h.d EXCEPT !.raw = RawPair(IF h.r /\ ~end_of_string(h.t)
                                    THEN Append(d.raw.first, CharAt(d))
                                    ELSE d.raw.first, h.t)], h.r))

read_key(d) ==
    Then(handle_empty_in_string(d, Top(d.keys).second, CharAt(d)), LAMBDA h :
    Tok([h.d EXCEPT !.keys[Len(d.keys)] =
            RawPair(IF h.r /\ ~end_of_string(h.t)
                    THEN Append(Top(d.keys).first, CharAt(d))
                    ELSE Top(d.keys).first, h.t)], h.r))

\* data.register_token(a); data.register_token(b);
register_tokens(d, a, b) == register_token(register_token(d, a), b)

\* a push_container that leaves luco_objs as it is
push_container_mut_no_push(d, n) ==
    Then(top_add(d, n), LAMBDA a :
    IF a.ok THEN Tok(a.d, TRUE)
    ELSE TokErr(d, "wrong_type"))

\* the new container added to the open one and pushed on luco_objs
push_container(d, n) ==
    Then(top_add(d, n), LAMBDA a :
    IF a.ok THEN Tok([a.d EXCEPT !.objs = Append(@, a.path)], TRUE)
    ELSE TokErr(d, "wrong_type"))

\* a new object under a key: the raw value becomes the key on top
push_object(d) ==
    Then(push_container(d, ObjTree), LAMBDA y :
    [y EXCEPT !.d.keys = Append(@, d.raw), !.d.raw = RawPair(<<>>, "none")])

\* the transient bracket stays open: an empty line is skipped, any other
\* character is read into the raw value
transient_bracket(d) ==
    IF d.raw.second = "none" /\ is_newline(CharAt(d)) THEN Tok(d, TRUE)
    ELSE read_raw(d)

\* is_end_of_token held: what the bracket opens
end_of_bracket(d) ==
    Then([unregister_token(d) EXCEPT !.keys[Len(d.keys)].first =
              strip_if_unqouted_string(@, Top(d.keys).second)], LAMBDA s0 :
    Then(delimiter(s0, "="), LAMBDA eq :
    IF eq.r THEN push_object(register_tokens(eq.d, "object", "equal_sign")) ELSE
    Then(delimiter(eq.d, "{"), LAMBDA b1 :
    IF b1.r /\ b1.d.raw.second # "none"
    THEN push_object(register_tokens(b1.d, "object", "opening_bracket"))
    ELSE IF is_newline(CharAt(b1.d))
    THEN push_container(register_tokens(b1.d, "array", "flush_value"), ArrTree)
    ELSE
    Then(delimiter(b1.d, "{"), LAMBDA b2 :
    IF b2.r /\ b2.d.raw.second = "none"
    THEN Then(top_insert(register_token(b2.d, "array"), Top(b2.d.keys).first,
                         ArrTree), LAMBDA arr :
         IF arr.ok
         THEN Tok(register_token([arr.d EXCEPT !.objs = Append(@, arr.path)],
                                 "transient_bracket"), TRUE)
         ELSE TokErr(arr.d, "wrong_type"))
    ELSE TokErr(b2.d, "parsing_error")))))

opening_bracket_handle_token(d) ==
    IF handle_is(d, {"opening_bracket"})
    THEN transient_bracket(register_token(unregister_token(d), "transient_bracket"))
    ELSE
    \* is_end_of_token
    Then(IF d.raw.second = "none" THEN delimiter(d, "{") ELSE Res(d, TRUE),
         LAMBDA e1 :
    Then(IF e1.r /\ e1.d.hier # <<>> /\ Top(e1.d.hier) = "transient_bracket"
         THEN handle_expected(e1.d, {"=", "{", "\n"})
         ELSE Res(e1.d, FALSE), LAMBDA e2 :
    IF e2.r THEN end_of_bracket(e2.d)
    ELSE IF is_registered_token(e2.d, "transient_bracket")
    THEN transient_bracket(e2.d)
    ELSE Tok(e2.d, FALSE)))

luco_key_handle_token(d) ==
    Then(IF handle_is(d, {"object"})
         THEN handle_not(d, {"\n", "\t", " ", "}", "{"})
         ELSE Res(d, FALSE), LAMBDA hn :
    IF hn.r
    THEN read_key([register_token(hn.d, "key") EXCEPT
                      !.keys = Append(@, RawPair(<<>>, "none"))])
    ELSE
    Then(IF is_registered_token(hn.d, "key")
         THEN handle_expected(hn.d, {"=", "{"})
         ELSE Res(hn.d, FALSE), LAMBDA ex :
    IF ex.r /\ ~expected_multi_line_string(Top(ex.d.keys).second)
    THEN Then(delimiter(ex.d, "="), LAMBDA eq :
         Tok(register_token(unregister_token(eq.d),
                            IF eq.r THEN "equal_sign" ELSE "opening_bracket"), TRUE))
    ELSE IF is_registered_token(ex.d, "key") THEN read_key(ex.d)
    ELSE Tok(ex.d, FALSE)))
\* an insert_value that inserts a default-constructed value
insert_value_mut_default(d) ==
    Then(get_type(strip_if_unqouted_string(d.raw.first, d.raw.second)), LAMBDA g :
    IF ~g.ok THEN TokErr(d, "terminate")
    ELSE IF TreeAt(d.root, Top(d.objs)).kind = "object"
    THEN IF d.keys = <<>> THEN TokErr(d, "undefined")
         ELSE Tok([top_insert(d, strip_if_unqouted_string(Top(d.keys).first,
                                                          Top(d.keys).second),
                              ValTree(EmptyValue)).d
                      EXCEPT !.keys = Pop(@), !.raw = RawPair(<<>>, "none")], TRUE)
    ELSE Tok([top_push_back(d, ValTree(EmptyValue)).d
                 EXCEPT !.raw = RawPair(<<>>, "none")], TRUE))

(* luco_value::insert_value: the raw value, stripped, becomes the scalar   *)
(* get_type deduces (whatever quoted it), under the key on top in an       *)
(* object or at the end of an array.  An exception of std::stod leaves     *)
(* try_parse, which is noexcept: std::terminate.                           *)
insert_value(d) ==
    Then(get_type(strip_if_unqouted_string(d.raw.first, d.raw.second)), LAMBDA g :
    IF ~g.ok THEN TokErr(d, "terminate")
    ELSE IF TreeAt(d.root, Top(d.objs)).kind = "object"
    THEN IF d.keys = <<>> THEN TokErr(d, "undefined")
         ELSE Tok([top_insert(d, strip_if_unqouted_string(Top(d.keys).first,
                                                          Top(d.keys).second),
                              ValTree(set_state(g.x))).d
                      EXCEPT !.keys = Pop(@), !.raw = RawPair(<<>>, "none")], TRUE)
    ELSE Tok([top_push_back(d, ValTree(set_state(g.x))).d
                 EXCEPT !.raw = RawPair(<<>>, "none")], TRUE))

\* luco_value::handle_token while the value is being read
read_value(d) ==
    Then(is_escaped(d, CharAt(d)).d, LAMBDA x1 :
    Then(handle_empty_in_string(x1, x1.raw.second, CharAt(x1)), LAMBDA h :
    Then([h.d EXCEPT !.raw.second = h.t], LAMBDA x2 :
    IF h.r
    THEN Then(delimiter(x2, "="), LAMBDA eq :
         IF eq.r
         THEN Tok([eq.d EXCEPT !.raw.second = "end_string_unqouted"], FALSE)
         ELSE Tok(IF end_of_string(h.t) THEN eq.d
                  ELSE [eq.d EXCEPT !.raw.first = Append(@, CharAt(d))], TRUE))
    ELSE
    Then(delimiter(x2, "{"), LAMBDA ob :
    IF ~ob.r THEN Tok(ob.d, FALSE) ELSE
    Then(unregister_token(ob.d), LAMBDA un :
    IF un.raw.second = "none"
    THEN Tok(register_token(un, "transient_bracket"), TRUE)
    ELSE Then(insert_value(un), LAMBDA iv :
         IF iv.r = "error" THEN iv
         ELSE Tok(register_token(iv.d, "transient_bracket"), TRUE)))))))

luco_value_handle_token(d) ==
    Then(IF handle_is(d, {"equal_sign", "array"})
         THEN handle_not(d, {"\n", "\t", " ", "}"})
         ELSE Res(d, FALSE), LAMBDA hn :
    \* is_token held: prepare_for_next_token, register_token
    IF hn.r
    THEN read_value(register_token(
             IF Top(hn.d.hier) \in {"equal_sign", "flush_value"}
             THEN unregister_token(hn.d) ELSE hn.d, "value"))
    ELSE IF hn.d.hier = <<>> THEN TokErr(hn.d, "undefined")
    ELSE
    \* is_end_of_token
    Then(is_registered_token(hn.d, "value") /\ is_newline(CharAt(hn.d)), LAMBDA nl :
    Then(~nl /\ is_registered_token(hn.d, "flush_value"), LAMBDA fl :
    Then(IF fl THEN [hn.d EXCEPT !.shift = TRUE] ELSE hn.d, LAMBDA e0 :
    IF (nl \/ fl) /\ ~expected_multi_line_string(e0.raw.second)
    THEN Then(insert_value(e0), LAMBDA ins :
         IF ins.r = "error" THEN ins ELSE Tok(unregister_token(ins.d), TRUE))
    ELSE IF is_registered_token(e0, "value") THEN read_value(e0)
    ELSE Tok(e0, FALSE)))))

(* closing_bracket::handle_token.  top() of an empty stack is undefined:   *)
(* a '}' that closes the document's own object empties the hierarchy.  A   *)
(* '}' read with a raw value pending fails an assert, which a build        *)
(* without NDEBUG turns into abort().                                      *)
closing_bracket_handle_token(d) ==
    Then(IF handle_is(d, {"object", "array"}) THEN delimiter(d, "}")
         ELSE Res(d, FALSE), LAMBDA it :
    IF it.r
    THEN IF it.d.keys = <<>> THEN TokErr(it.d, "undefined") ELSE
         \* registered and unregistered at once; the key on top is cleared;
         \* then prepare_for_next_token
         Then(unregister_token([it.d EXCEPT !.keys[Len(it.d.keys)] =
                                   RawPair(<<>>, "none")]), LAMBDA c1 :
         IF c1.hier = <<>> THEN TokErr(it.d, "undefined")
         ELSE IF Top(c1.hier) = "object" /\ c1.keys = <<>>
         THEN TokErr(c1, "undefined")
         ELSE Tok([c1 EXCEPT !.keys = IF Top(c1.hier) = "object" THEN Pop(@) ELSE @,
                             !.objs = Pop(@)], TRUE))
    ELSE
    Then(IF is_registered_token(it.d, "transient_bracket")
         THEN delimiter(it.d, "}") ELSE Res(it.d, FALSE), LAMBDA tb :
    IF ~tb.r THEN Tok(tb.d, FALSE) ELSE
    Then(unregister_token(tb.d), LAMBDA un :
    IF un.keys = <<>> \/ un.raw # RawPair(<<>>, "none")
    THEN TokErr(un, "undefined")
    ELSE Then(top_insert(un, Top(un.keys).first, ObjTree), LAMBDA ins :
         IF ins.ok THEN Tok(ins.d, TRUE) ELSE TokErr(un, "wrong_type")))))

syntax_error(d) ==
    IF is_empty_newline(CharAt(d)) THEN Tok(d, FALSE)
    ELSE IF d.hier = <<>> THEN TokErr(d, "parsing_error")
    ELSE
    Then(IF d.raw.second \in {"escaped_string_newline_qouted_1",
                              "escaped_string_newline_qouted_2"}
         THEN delimiter(d, "\\") ELSE Res(d, TRUE), LAMBDA bs :
    IF ~bs.r THEN TokErr(bs.d, "parsing_error")
    ELSE IF d.raw.second \in {"end_string_1", "end_string_2"}
    THEN TokErr(d, "parsing_error")
    ELSE IF d.keys # <<>> /\ end_of_string(Top(d.keys).second)
              /\ is_registered_token(d, "key")
    THEN TokErr(d, "parsing_error")
    ELSE IF end_of_string(d.raw.second) /\ is_registered_token(d, "value")
    THEN TokErr(d, "parsing_error")
    ELSE
    Then(IF is_registered_token(bs.d, "object") THEN delimiter(bs.d, "{")
         ELSE Res(bs.d, FALSE), LAMBDA ob :
    IF ob.r THEN TokErr(ob.d, "parsing_error") ELSE
    Then(delimiter(ob.d, "}"), LAMBDA cb :
    IF cb.r THEN TokErr(cb.d, "parsing_error")
    ELSE Tok(cb.d, FALSE))))

\* parser::parsing: the first token class that takes the character
parsing(d) ==
    Then(comment_handle_token(d), LAMBDA t1 :
    IF t1.r # "false" THEN t1 ELSE
    Then(luco_key_handle_token(t1.d), LAMBDA t2 :
    IF t2.r # "false" THEN t2 ELSE
    Then(luco_value_handle_token(t2.d), LAMBDA t3 :
    IF t3.r # "false" THEN t3 ELSE
    Then(opening_bracket_handle_token(t3.d), LAMBDA t4 :
    IF t4.r # "false" THEN t4 ELSE
    Then(closing_bracket_handle_token(t4.d), LAMBDA t5 :
    IF t5.r # "false" THEN t5 ELSE syntax_error(t5.d))))))
\* struct parsing_data as try_parse sets it up: the document's object is
\* open, with an empty key; cbc is comment::brackets_count
NewData ==
    [line |-> <<>>, i |-> 0, line_number |-> 1, shift |-> FALSE,
     keys |-> <<RawPair(<<>>, "none")>>, objs |-> << <<>> >>,
     esc |-> NoEscape, raw |-> RawPair(<<>>, "none"),
     hier |-> <<"object">>, root |-> ObjTree, cbc |-> 0]

(* The loop over the characters of a chunk.  A token that sets             *)
(* shift_index_backward_for_oldnewline has the character read again;       *)
(* `again` counts the times in a row.                                       *)
\* the times in a row one character is read again before the loop is taken
\* to go on for ever
MaxAgain == 3

\* F applied n times to s, as two halves one after the other
RECURSIVE Repeat(_, _, _)
Repeat(F(_), s, n) ==
    IF n = 0 THEN s
    ELSE IF n = 1 THEN F(s)
    ELSE Then(Repeat(F, s, n \div 2), LAMBDA m : Repeat(F, m, n - (n \div 2)))

\* the loop is at s: what the last call returned (t), and the times in a
\* row (again) or the index into the text (k)
Loop(t, n) == [t |-> t, n |-> n]

\* one turn of for (data.i = 0; data.i < data.line.size(); data.i++)
scan_char(s) ==
    IF s.t.r = "error" \/ s.t.d.i >= Len(s.t.d.line) THEN s ELSE
    Then(parsing(s.t.d), LAMBDA p :
    IF p.r = "error" THEN Loop(p, 0)
    ELSE IF ~p.d.shift THEN Loop(Tok([p.d EXCEPT !.i = @ + 1], TRUE), 0)
    ELSE IF s.n = MaxAgain THEN Loop(TokErr(s.t.d, "diverges"), 0)
    ELSE Loop(Tok([p.d EXCEPT !.shift = FALSE], TRUE), s.n + 1))

\* the loop: no character is read more than MaxAgain + 1 times
scan_line(d, again) ==
    Repeat(scan_char, Loop(Tok(d, TRUE), again), Len(d.line) * (MaxAgain + 1)).t

(* parser::try_parse(const std::string&): the text is cut after each       *)
(* '\n', ',' and '}', and each chunk is read on its own; what follows the  *)
(* last of them is added to data.line and not read.                        *)
ChunkEnds == {"\n", ",", "}"}

\* the index of the first character of ends in s at or after k; 0 when
\* there is none
first_of(s, k, ends) ==
    IF \E j \in k..Len(s) : s[j] \in ends
    THEN CHOOSE j \in k..Len(s) :
             s[j] \in ends /\ \A m \in k..(j - 1) : s[m] \notin ends
    ELSE 0

\* the characters of ends in s
count_of(s, ends) == Cardinality({j \in 1..Len(s) : s[j] \in ends})

\* the turns of for (i = 0; i < raw_json.size(); i++) up to the end of the
\* next chunk, and the loop over the chunk
feed_chunk(s, raw_json) ==
    IF s.t.r = "error" \/ s.n > Len(raw_json) THEN s ELSE
    Then(first_of(raw_json, s.n, ChunkEnds), LAMBDA e :
    IF e = 0
    THEN Loop(Tok([s.t.d EXCEPT !.line = SubSeq(raw_json, s.n, Len(raw_json))], TRUE),
            Len(raw_json) + 1)
    ELSE Then(scan_line([s.t.d EXCEPT !.line = SubSeq(raw_json, s.n, e), !.i = 0], 0),
              LAMBDA c :
         IF c.r = "error" THEN Loop(c, s.n)
         ELSE Loop(Tok([c.d EXCEPT !.line = <<>>, !.line_number = @ + 1], TRUE), e + 1)))

feed(d, raw_json, k) ==
    Repeat(LAMBDA s : feed_chunk(s, raw_json), Loop(Tok(d, TRUE), k),
           count_of(raw_json, ChunkEnds) + 1).t

\* what a call of the parser gives: a tree, a luco::error, or no return
Parsed(outcome, err, tree) == [outcome |-> outcome, err |-> err, tree |-> tree]

\* no call of the parser yet
NoDoc == Parsed("none", "none", ObjTree)

\* no call of try_parse is running
NoScan == [pc |-> "idle", d |-> NewData, k |-> 0]

try_parse(raw_json) ==
    Then(feed(NewData, raw_json, 1), LAMBDA f :
    IF f.r = "error"
    THEN IF f.err \in {"terminate", "undefined", "diverges"}
         THEN Parsed(f.err, "none", ObjTree)
         ELSE Parsed("error", f.err, ObjTree)
    ELSE IF f.d.hier = <<>> THEN Parsed("undefined", "none", ObjTree)
    ELSE IF Top(f.d.hier) = "nested_comment"
    THEN Parsed("error", "parsing_error", ObjTree)
    ELSE Parsed("ok", "none", f.d.root))

(* parser::try_parse(const std::filesystem::path&): std::getline cuts the  *)
(* content of the file at each '\n', a last line that has no '\n' is a     *)
(* line too, and each line is read whole with a '\n' added to it.          *)
\* one turn of while (std::getline(*file, data.line)), and the loop over
\* the line
feed_line(s, content) ==
    IF s.t.r = "error" \/ s.n > Len(content) THEN s ELSE
    Then(first_of(content, s.n, {"\n"}), LAMBDA e :
    Then(scan_line([s.t.d EXCEPT !.line =
                       Append(SubSeq(content, s.n,
                                     IF e = 0 THEN Len(content) ELSE e - 1), "\n"),
                    !.i = 0], 0),
         LAMBDA c :
    IF c.r = "error" THEN Loop(c, s.n)
    ELSE Loop(Tok([c.d EXCEPT !.line = <<>>, !.line_number = @ + 1], TRUE),
            IF e = 0 THEN Len(content) + 1 ELSE e + 1)))

feed_lines(d, content, k) ==
    Repeat(LAMBDA s : feed_line(s, content), Loop(Tok(d, TRUE), k),
           count_of(content, {"\n"}) + 1).t

\* try_parse of the path of a file that opens and holds `content`
try_parse_file(content) ==
    Then(feed_lines(NewData, content, 1), LAMBDA f :
    IF f.r = "error"
    THEN IF f.err \in {"terminate", "undefined", "diverges"}
         THEN Parsed(f.err, "none", ObjTree)
         ELSE Parsed("error", f.err, ObjTree)
    ELSE IF f.d.hier = <<>> THEN Parsed("undefined", "none", ObjTree)
    ELSE IF Top(f.d.hier) = "nested_comment"
    THEN Parsed("error", "parsing_error", ObjTree)
    ELSE Parsed("ok", "none", f.d.root))

\* parser::parse(const std::string&): throws the error try_parse returns
parse(raw_json) ==
    Then(try_parse(raw_json), LAMBDA p :
    IF p.outcome = "error" THEN Parsed("throw", p.err, ObjTree) ELSE p)
----------------------------------------------------------------------------
(* node::dump_to_luco and node::dump_to_string, on the tree below a node.  *)
(* An object is a std::map: its entries come in the order of their keys.   *)

\* the characters of the texts, in the order of their codes
Ascii ==
    <<"\t", "\n", " ", "\"", "#", "'", ",", "-", ".",
      "0", "1", "2", "3", "4", "5", "6", "7", "8", "9", "=", "\\",
      "a", "b", "c", "d", "e", "f", "g", "h", "i", "j", "k", "l", "m",
      "n", "o", "p", "q", "r", "s", "t", "u", "v", "w", "x", "y", "z",
      "{", "}">>

CharCode(c) == CHOOSE j \in 1..Len(Ascii) : Ascii[j] = c

\* std::less<std::string>
RECURSIVE StrLess(_, _)
StrLess(s, t) ==
    IF t = <<>> THEN FALSE
    ELSE IF s = <<>> THEN TRUE
    ELSE IF Head(s) = Head(t) THEN StrLess(Tail(s), Tail(t))
    ELSE CharCode(Head(s)) < CharCode(Head(t))

RECURSIVE SortedKeys(_)
SortedKeys(ks) ==
    IF ks = {} THEN <<>>
    ELSE LET k == CHOOSE x \in ks : \A y \in ks \ {x} : StrLess(x, y)
         IN  <<k>> \o SortedKeys(ks \ {k})

Indent(n) == [j \in 1..n |-> " "]

RECURSIVE Concat(_)
Concat(ss) == IF ss = <<>> THEN <<>> ELSE Head(ss) \o Concat(Tail(ss))

\* indent_conf is {' ', 4}
RECURSIVE dump_to_luco(_, _)
dump_to_luco(t, indent) ==
    LET ks == SortedKeys(DOMAIN t.obj)
        nested(c) == c.kind \in {"array", "object"}
        indent_width == IF indent # 0 THEN indent + 4 ELSE 0
        entry(k) == Indent(indent_width) \o k
                      \o (IF nested(t.obj[k]) THEN <<" ">> ELSE <<" ", "=", " ">>)
                      \o dump_to_luco(t.obj[k], indent + 4) \o <<"\n">>
        element(c) == Indent(indent + 4) \o dump_to_luco(c, indent + 4) \o <<"\n">>
    IN  IF t.kind = "object"
        THEN (IF indent # 0 THEN <<"{", "\n">> ELSE <<>>)
               \o Concat([j \in 1..Len(ks) |-> entry(ks[j])])
               \o (IF indent # 0 THEN Indent(indent) \o <<"}">> ELSE <<>>)
        ELSE IF t.kind = "array"
        THEN <<"{", "\n">> \o Concat([j \in 1..Len(t.arr) |-> element(t.arr[j])])
               \o Indent(indent) \o <<"}">>
        ELSE IF type(t.val) = "string" THEN <<"\"">> \o stringify(t.val) \o <<"\"">>
        ELSE stringify(t.val)

dump_to_string(t) == dump_to_luco(t, 0)

----------------------------------------------------------------------------
(* The client's program: one action for each call.                         *)

Call(op, outcome, err) == [op |-> op, outcome |-> outcome, err |-> err]

\* std::terminate ended the program
Running == last.outcome # "terminate"

\* the accessors, which leave the tree as it is
Accessors ==
    {"at(key)", "at(index)", "try_at(key)", "try_at(index)",
     "try_as_node", "as_node", "try_as", "as"}

(* The client's program is up to MaxCalls calls.  An accessor leaves the   *)
(* tree as it is, so every state the program reaches is reached with the   *)
(* accessor as its last call: the program ends with it.                    *)
CanCall == Running /\ calls < MaxCalls /\ last.op \notin Accessors

\* the call ends: what it was and how it ended
Return(op, outcome, err) ==
    /\ last' = Call(op, outcome, err)
    /\ calls' = calls + 1
    /\ UNCHANGED <<text, doc, scan>>

(* A call on the tree returns: the cells without an owner are released,    *)
(* and no more than MaxCells stay live.                                    *)
Do(op, e) ==
    /\ LET c == Release(e.roots, e.heap)
       IN  /\ c.n <= MaxCells
           /\ roots' = c.roots
           /\ heap' = c.heap
    /\ Return(op, e.outcome, e.err)
    /\ UNCHANGED vals

\* an accessor returns: the tree is as it was
Observe(op, e) ==
    /\ Return(op, e.outcome, e.err)
    /\ UNCHANGED <<roots, heap, vals>>

DefaultCtor(h) ==
    /\ CanCall
    /\ Do("node()", node_ctor(roots, heap, h))

NodeCtor(h, t) ==
    /\ CanCall
    /\ Do("node(node_type)", node_ctor_type(roots, heap, h, t))

Construct(h, src) ==
    /\ CanCall
    /\ ValidSrc(roots, heap, src)
    /\ Do("node(T)", node_ctor_from(roots, heap, h, src))

InitListCtor(h, alt, items) ==
    /\ CanCall
    /\ ValidItems(roots, heap, items)
    /\ Do("node(initializer_list)", node_ctor_list(roots, heap, h, alt, items))

Set(r, src) ==
    /\ CanCall
    /\ ValidRef(roots, heap, r)
    /\ ValidSrc(roots, heap, src)
    /\ Do(IF src = SrcNode(r) THEN "set(self)" ELSE "set",
          set(roots, heap, r, src))

Assign(r, src) ==
    /\ CanCall
    /\ ValidRef(roots, heap, r)
    /\ ValidSrc(roots, heap, src)
    /\ Do(IF src = SrcNode(r) THEN "operator=(self)" ELSE "operator=",
          operator_assign(roots, heap, r, src))

Insert(r, key, src) ==
    /\ CanCall
    /\ ValidRef(roots, heap, r)
    /\ ValidSrc(roots, heap, src)
    /\ Do("insert", insert(roots, heap, r, key, src))

\* an array of the model holds MaxLen elements at most
PushBack(r, src) ==
    /\ CanCall
    /\ ValidRef(roots, heap, r)
    /\ ValidSrc(roots, heap, src)
    /\ is_array(Deref(roots, heap, r)) => size(heap, Deref(roots, heap, r)) < MaxLen
    /\ Do("push_back", push_back(roots, heap, r, src))

PlusEq(r, alt, items) ==
    /\ CanCall
    /\ ValidRef(roots, heap, r)
    /\ ValidItems(roots, heap, items)
    /\ is_array(Deref(roots, heap, r)) =>
           size(heap, Deref(roots, heap, r)) + Len(items) <= MaxLen
    /\ Do("operator+=", operator_plus_eq(roots, heap, r, alt, items))

Plus(h, r1, r2) ==
    /\ CanCall
    /\ ValidRef(roots, heap, r1)
    /\ ValidRef(roots, heap, r2)
    /\ LET e == operator_plus(roots, heap, h, r1, r2)
       IN  /\ e.outcome = "ok" => PlusFits(e.heap, e.roots[h])
           /\ Do("operator+", e)

At(r, key) ==
    /\ CanCall
    /\ ValidRef(roots, heap, r)
    /\ Observe("at(key)", at_key(heap, Deref(roots, heap, r), key))

AtIndex(r, i) ==
    /\ CanCall
    /\ ValidRef(roots, heap, r)
    /\ Observe("at(index)", at_index(heap, Deref(roots, heap, r), i))

TryAt(r, key) ==
    /\ CanCall
    /\ ValidRef(roots, heap, r)
    /\ Observe("try_at(key)", try_at_key(heap, Deref(roots, heap, r), key))

TryAtIndex(r, i) ==
    /\ CanCall
    /\ ValidRef(roots, heap, r)
    /\ Observe("try_at(index)", try_at_index(heap, Deref(roots, heap, r), i))

TryAsNode(r, alt) ==
    /\ CanCall
    /\ ValidRef(roots, heap, r)
    /\ Observe("try_as_node", node_try_as(Deref(roots, heap, r), alt))

AsNode(r, alt) ==
    /\ CanCall
    /\ ValidRef(roots, heap, r)
    /\ Observe("as_node", Raise(node_try_as(Deref(roots, heap, r), alt)))

TryAs(r, cast) ==
    /\ CanCall
    /\ ValidRef(roots, heap, r)
    /\ Observe("try_as", node_try_as_cast(heap, Deref(roots, heap, r), cast))

As(r, cast) ==
    /\ CanCall
    /\ ValidRef(roots, heap, r)
    /\ Observe("as", Raise(node_try_as_cast(heap, Deref(roots, heap, r), cast)))

----------------------------------------------------------------------------
(* The tree: two default-constructed nodes, then any calls.                *)

Init ==
    /\ roots = [h \in Handles |-> Node("object", IF h = "a" THEN 1 ELSE 2)]
    /\ heap = [a \in Addr |-> IF a <= 2 THEN ObjCell(EmptyMap) ELSE FreeCell]
    /\ vals = [v \in ValNames |-> EmptyValue]
    /\ last = Call("node()", "ok", "none")
    /\ calls = 0
    /\ text = <<>>
    /\ doc = NoDoc
    /\ scan = NoScan

NodeAlts == {"value", "array", "object"}
Indices == 0..MaxLen

Next ==
    \/ \E h \in Handles : DefaultCtor(h)
    \/ \E h \in Handles, t \in NodeAlts : NodeCtor(h, t)
    \/ \E h \in Handles, src \in Srcs : Construct(h, src)
    \/ \E h \in Handles, l \in PairLists : InitListCtor(h, "object", l)
    \/ \E h \in Handles, l \in ValueLists : InitListCtor(h, "array", l)
    \/ \E r \in Refs, src \in Srcs : Set(r, src)
    \/ \E r \in Refs, h \in Handles : Assign(r, SrcNode(RootRef(h)))
    \/ \E r \in Refs, k \in Keys, src \in Srcs : Insert(r, k, src)
    \/ \E r \in Refs, src \in Srcs : PushBack(r, src)
    \/ \E r \in Refs, l \in PairLists : PlusEq(r, "object", l)
    \/ \E r \in Refs, l \in ValueLists : PlusEq(r, "array", l)
    \/ \E h \in Handles, r1 \in Refs, r2 \in Refs : Plus(h, r1, r2)
    \/ \E r \in Refs, k \in Keys : At(r, k)
    \/ \E r \in Refs, i \in Indices : AtIndex(r, i)
    \/ \E r \in Refs, k \in Keys : TryAt(r, k)
    \/ \E r \in Refs, i \in Indices : TryAtIndex(r, i)
    \/ \E r \in Refs, alt \in NodeAlts : TryAsNode(r, alt)
    \/ \E r \in Refs, alt \in NodeAlts : AsNode(r, alt)
    \/ \E r \in Refs, c \in Casts : TryAs(r, c)
    \/ \E r \in Refs, c \in Casts : As(r, c)

Spec == Init /\ [][Next]_vars

----------------------------------------------------------------------------
(* class value on its own: construction, copies, set_value_type, casts.    *)

\* the strings the client passes to set_value_type(const std::string&, value_type)
StrInputs == {<<"1", ".", "5">>, <<"x">>, <<"t", "r", "u", "e">>}

\* a call on a luco::value ends: the nodes are as they were
ValueReturn(op, outcome, err) ==
    /\ last' = Call(op, outcome, err)
    /\ UNCHANGED <<roots, heap, calls, text, doc, scan>>

\* luco::value v;
ValueDefaultCtor(v) ==
    /\ vals' = [vals EXCEPT ![v] = EmptyValue]
    /\ ValueReturn("value()", "ok", "none")

\* luco::value v(x);
ValueCtor(v, x) ==
    /\ vals' = [vals EXCEPT ![v] = set_state(x)]
    /\ ValueReturn("value(T)", "ok", "none")

\* luco::value v(w);  v = w;
ValueCopy(v, w) ==
    /\ vals' = [vals EXCEPT ![v] = vals[w]]
    /\ ValueReturn("value(value)", "ok", "none")

\* v.set_value_type(x)
SetValueType(v, x) ==
    /\ vals' = [vals EXCEPT ![v] = set_state(x)]
    /\ ValueReturn("set_value_type(T)", "ok", "none")

\* v.set_value_type(s, t)
SetValueTypeStr(v, s, t) ==
    /\ vals' = [vals EXCEPT ![v] = set_state_str(vals[v], s, t).v]
    /\ ValueReturn("set_value_type(string, value_type)",
                   set_state_str(vals[v], s, t).outcome,
                   set_state_str(vals[v], s, t).err)

\* v.try_as_string() ... v.try_as_null()
ValueTryAs(v, cast) ==
    /\ UNCHANGED vals
    /\ ValueReturn("value::try_as", value_try_as(vals[v], cast).outcome,
                   value_try_as(vals[v], cast).err)

\* v.as_string() ... v.as_null()
ValueAs(v, cast) ==
    /\ UNCHANGED vals
    /\ ValueReturn("value::as", Raise(value_try_as(vals[v], cast)).outcome,
                   Raise(value_try_as(vals[v], cast)).err)

\* v.stringify()
ValueStringify(v) ==
    /\ UNCHANGED vals
    /\ ValueReturn("stringify", "ok", "none")

NextValue ==
    \/ \E v \in ValNames : ValueDefaultCtor(v)
    \/ \E v \in ValNames, x \in ScalarInputs : ValueCtor(v, x)
    \/ \E v \in ValNames, w \in ValNames : ValueCopy(v, w)
    \/ \E v \in ValNames, x \in ScalarInputs : SetValueType(v, x)
    \/ \E v \in ValNames, s \in StrInputs, t \in value_type : SetValueTypeStr(v, s, t)
    \/ \E v \in ValNames, c \in Casts : ValueTryAs(v, c)
    \/ \E v \in ValNames, c \in Casts : ValueAs(v, c)
    \/ \E v \in ValNames : ValueStringify(v)

SpecValue == Init /\ [][NextValue]_vars

----------------------------------------------------------------------------
(* operator+ on its own: the client constructs a and b, each from one of   *)
(* the arguments below, and then adds nodes.                               *)

Operand(c, alt, x, items) == [c |-> c, alt |-> alt, x |-> x, items |-> items]

(* luco::node h = {{"k", 1}};  h = {"s"};  h(1.5);  h(node_type::value);    *)
(* and a value node set through as_value()->set_value_type(string, tag)    *)
Operands ==
    {Operand("list", "object", LNull, l) :
        l \in {<<>>,
               <<Pair(KeySeq[1], ItemLit(LInt(1)))>>,
               <<Pair(KeySeq[1], ItemLit(LStr(<<"s">>)))>>,
               <<Pair(KeySeq[2], ItemLit(LStr(<<"t">>)))>>,
               <<Pair(KeySeq[1], ItemLit(LInt(1))), Pair(KeySeq[2], ItemLit(LBool(TRUE)))>>,
               <<Pair(KeySeq[1], ItemNode(Ref("a", "self", <<>>, 0)))>>}}
      \cup {Operand("list", "array", LNull, l) :
              l \in {<<>>,
                     <<ItemLit(LInt(1))>>,
                     <<ItemLit(LStr(<<"s">>))>>,
                     <<ItemNode(Ref("a", "self", <<>>, 0))>>}}
      \cup {Operand("from", "value", x, <<>>) :
              x \in {LInt(1), LInt(2), LDbl(1500000), LStr(<<"s">>), LStr(<<"t">>),
                     LBool(TRUE), LNull}}
      \cup {Operand("type", "value", LNull, <<>>)}
      \cup {Operand("str", "number", LStr(s), <<>>) : s \in {<<"1", ".", "5">>, <<"x">>}}

(* luco::node h(luco::node_type::value);                                   *)
(* h.as_value()->set_value_type(s, t);   with an exception caught          *)
node_ctor_str(rts, hp, h, str, t) ==
    LET c == NewValue(Ext(hp), set_state_str(EmptyValue, str, t).v)
    IN  Effect([rts EXCEPT ![h] = c.node], c.heap, "ok", "none")

\* the constructor call an operand is built with
construct(rts, hp, h, o) ==
    CASE o.c = "list" -> node_ctor_list(rts, hp, h, o.alt, o.items)
      [] o.c = "from" -> node_ctor_from(rts, hp, h, SrcLit(o.x))
      [] o.c = "type" -> node_ctor_type(rts, hp, h, o.alt)
      [] o.c = "str" -> node_ctor_str(rts, hp, h, o.x.s, o.alt)

\* luco::node a; luco::node b;
Fresh ==
    [roots |-> [h \in Handles |-> Node("object", IF h = "a" THEN 1 ELSE 2)],
     heap |-> [c \in Addr |-> IF c <= 2 THEN ObjCell(EmptyMap) ELSE FreeCell]]

\* the state a call leaves, the cells without an owner released
Released(e) == Release(e.roots, e.heap)

Constructed(s, h, o) == Released(construct(s.roots, s.heap, h, o))

\* luco::node a(oa); luco::node b(ob);
Built(oa, ob) == Constructed(Constructed(Fresh, "a", oa), "b", ob)

InitPlus ==
    \E oa \in Operands, ob \in Operands :
        /\ \A i \in 1..Len(oa.items) : oa.items[i].t # "node"
        /\ \E s \in {Built(oa, ob)} :
              /\ s.n <= MaxCells
              /\ roots = s.roots
              /\ heap = s.heap
        /\ vals = [v \in ValNames |-> EmptyValue]
        /\ last = Call("node(T)", "ok", "none")
        /\ calls = 0
        /\ text = <<>>
        /\ doc = NoDoc
        /\ scan = NoScan

NextPlus == \E h \in Handles, r1 \in Refs, r2 \in Refs : Plus(h, r1, r2)

SpecPlus == InitPlus /\ [][NextPlus]_vars

----------------------------------------------------------------------------
(* The documents the client parses, by the rule of the grammar they try.   *)

\* <key> = <value>\n
Assignment(key, value) == key \o <<" ", "=", " ">> \o value \o <<"\n">>

\* the words of the type inference, and two that are nearly words
Words ==
    {<<"n", "u", "l", "l">>, <<"t", "r", "u", "e">>, <<"o", "n">>,
     <<"f", "a", "l", "s", "e">>, <<"o", "f", "f">>,
     <<"n", "u", "l">>, <<"t", "r", "u">>}

\* the characters of an unquoted lexeme: a digit, the dot, a sign, a letter
LexChars == {"1", ".", "-", "a"}

MaxLexeme == 3

RECURSIVE SeqsUpTo(_, _)
SeqsUpTo(S, n) ==
    IF n = 0 THEN {<<>>}
    ELSE SeqsUpTo(S, n - 1)
           \cup {Append(s, c) : s \in {t \in SeqsUpTo(S, n - 1) : Len(t) = n - 1},
                                c \in S}

Lexemes == (SeqsUpTo(LexChars, MaxLexeme) \ {<<>>}) \cup Words

\* k = <lexeme>\n
LexemeTexts == {Assignment(<<"k">>, l) : l \in Lexemes}

\* runs of digits that are no long long: 2^63 and twenty nines
TooLong ==
    {[LLongMax EXCEPT ![Len(LLongMax)] = "8"], [j \in 1..20 |-> "9"]}

\* k = <digits>\n
LongTexts == {Assignment(<<"k">>, l) : l \in TooLong}

\* "<s>" and '<s>'
Quoted(q, s) == <<q>> \o s \o <<q>>

\* the texts that are a scalar of another kind when they are not quoted
QuotedWords ==
    {<<"5">>, <<"1", ".", "5">>, <<"t", "r", "u", "e">>, <<"n", "u", "l", "l">>,
     <<"o", "f", "f">>}

\* key = "5"\n   key = 'true'\n   ...
QuotedTexts ==
    {Assignment(<<"k", "e", "y">>, Quoted(q, s)) : q \in {"\"", "'"}, s \in QuotedWords}

(* The lines key = scalar: the key and the value quoted or not, spaces and *)
(* tabs before the key, around '=' and after the value.                    *)

\* q = "" for a text that is not quoted
Written(q, s) == IF q = "" THEN s ELSE Quoted(q, s)

\* a key as it is written: its text and its quote
KeyForms ==
    {[s |-> <<"a">>, q |-> ""], [s |-> <<"a">>, q |-> "\""],
     [s |-> <<"a">>, q |-> "'"], [s |-> <<"a", " ", "b">>, q |-> ""]}

\* a scalar as it is written, with the value it denotes
ValueForms ==
    {[s |-> <<"5">>, q |-> "", x |-> LInt(5)],
     [s |-> <<"t", "r", "u", "e">>, q |-> "", x |-> LBool(TRUE)],
     [s |-> <<"c", "a", "t">>, q |-> "", x |-> LStr(<<"c", "a", "t">>)],
     [s |-> <<"c", "a", "t">>, q |-> "\"", x |-> LStr(<<"c", "a", "t">>)],
     [s |-> <<"c", "a", "t">>, q |-> "'", x |-> LStr(<<"c", "a", "t">>)]}

\* the blanks before and after '='
Separators ==
    {[pre |-> <<>>, post |-> <<>>], [pre |-> <<" ">>, post |-> <<" ">>],
     [pre |-> <<"\t">>, post |-> <<"\t">>], [pre |-> <<" ">>, post |-> <<>>]}

Line(lead, key, sep, value, trail) ==
    [lead |-> lead, key |-> key, sep |-> sep, value |-> value, trail |-> trail]

Lines ==
    {Line(lead, key, sep, value, trail) :
        lead \in {<<>>, <<" ">>}, key \in KeyForms, sep \in Separators,
        value \in ValueForms, trail \in {<<>>, <<" ", "\t">>}}

\* the lines of the documents of more than one line
ShortLines ==
    {Line(<<>>, [s |-> k, q |-> ""], [pre |-> <<" ">>, post |-> <<" ">>], value, <<>>) :
        k \in {<<"a">>, <<"b">>}, value \in {v \in ValueForms : v.q # "'"}}

\* \t\tname = "cat"\n\t\t"age"= 5\n\t\tsmol=true\n
CatLines ==
    <<Line(<<"\t", "\t">>, [s |-> <<"n", "a", "m", "e">>, q |-> ""],
           [pre |-> <<" ">>, post |-> <<" ">>],
           [s |-> <<"c", "a", "t">>, q |-> "\"", x |-> LStr(<<"c", "a", "t">>)], <<>>),
      Line(<<"\t", "\t">>, [s |-> <<"a", "g", "e">>, q |-> "\""],
           [pre |-> <<>>, post |-> <<" ">>],
           [s |-> <<"5">>, q |-> "", x |-> LInt(5)], <<>>),
      Line(<<"\t", "\t">>, [s |-> <<"s", "m", "o", "l">>, q |-> ""],
           [pre |-> <<>>, post |-> <<>>],
           [s |-> <<"t", "r", "u", "e">>, q |-> "", x |-> LBool(TRUE)], <<>>)>>

LineDocs ==
    {<<l>> : l \in Lines} \cup {<<l1, l2>> : l1 \in ShortLines, l2 \in ShortLines}
      \cup {CatLines}

RenderLine(l) ==
    l.lead \o Written(l.key.q, l.key.s) \o l.sep.pre \o <<"=">> \o l.sep.post
      \o Written(l.value.q, l.value.s) \o l.trail \o <<"\n">>

RenderDoc(ls) == Concat([j \in 1..Len(ls) |-> RenderLine(ls[j])])

LineTexts == {RenderDoc(ls) : ls \in LineDocs}

(* The documents array {\n <lines> }\n: a line is a scalar (the child is   *)
(* an array) or key = scalar (the child is an object).                     *)

\* the scalars of the elements
ElementForms ==
    {[s |-> <<"m", "e", "o", "w">>, q |-> "\"", x |-> LStr(<<"m", "e", "o", "w">>)],
     [s |-> <<"c", "a", "t">>, q |-> "", x |-> LStr(<<"c", "a", "t">>)],
     [s |-> <<"5">>, q |-> "", x |-> LInt(5)],
     [s |-> <<"5", ".", "0">>, q |-> "", x |-> LDbl(5 * DScale)],
     [s |-> <<"t", "r", "u", "e">>, q |-> "", x |-> LBool(TRUE)],
     [s |-> <<"n", "u", "l", "l">>, q |-> "", x |-> LNull]}

\* "meow", "hi", 5, 5.0, true, null
SixElements ==
    <<[s |-> <<"m", "e", "o", "w">>, q |-> "\"", x |-> LStr(<<"m", "e", "o", "w">>)],
      [s |-> <<"h", "i">>, q |-> "\"", x |-> LStr(<<"h", "i">>)],
      [s |-> <<"5">>, q |-> "", x |-> LInt(5)],
      [s |-> <<"5", ".", "0">>, q |-> "", x |-> LDbl(5 * DScale)],
      [s |-> <<"t", "r", "u", "e">>, q |-> "", x |-> LBool(TRUE)],
      [s |-> <<"n", "u", "l", "l">>, q |-> "", x |-> LNull]>>

MaxElements == 2

ElementLists ==
    {<<e>> : e \in ElementForms}
      \cup (IF MaxElements >= 2
            THEN {<<e1, e2>> : e1 \in ElementForms, e2 \in ElementForms} ELSE {})
      \cup (IF MaxElements >= 3
            THEN {<<e, e, e>> : e \in ElementForms} ELSE {})
      \cup {SixElements}

EntryLists ==
    {<<l>> : l \in ShortLines} \cup {<<l1, l2>> : l1 \in ShortLines, l2 \in ShortLines}

\* what the braces of a document hold: the elements of an array, or the
\* entries of an object; lead is written before each of them
Bracket(kind, lead, elems, lines) ==
    [kind |-> kind, lead |-> lead, elems |-> elems, lines |-> lines]

BracketDocs ==
    {Bracket("array", lead, es, <<>>) : lead \in {<<>>, <<" ">>}, es \in ElementLists}
      \cup {Bracket("object", lead, <<>>, ls) :
              lead \in {<<>>, <<" ">>}, ls \in EntryLists}

RenderBracket(b) ==
    <<"a", "r", "r", "a", "y", " ", "{", "\n">>
      \o Concat([j \in 1..Len(b.elems) |->
                    b.lead \o Written(b.elems[j].q, b.elems[j].s) \o <<"\n">>])
      \o Concat([j \in 1..Len(b.lines) |-> b.lead \o RenderLine(b.lines[j])])
      \o <<"}", "\n">>

BracketTexts == {RenderBracket(b) : b \in BracketDocs}

(* The quoted strings with a doubled quote inside: as a value, as a key,   *)
(* as an element of an array.                                              *)

\* <q><pre><q><q><post><q>, and the string it is to denote
DoubledQuote(q, pre, post) ==
    [s |-> Quoted(q, pre \o <<q, q>> \o post), x |-> pre \o <<q>> \o post]

\* "key" = "val""ue"\n
ValueCase ==
    [text |-> Assignment(Quoted("\"", <<"k", "e", "y">>),
                         DoubledQuote("\"", <<"v", "a", "l">>, <<"u", "e">>).s),
     key |-> <<"k", "e", "y">>,
     x |-> DoubledQuote("\"", <<"v", "a", "l">>, <<"u", "e">>).x]

\* k = "a""bc"\n   k = 'a''bc'\n
QuoteValueCases ==
    {ValueCase}
      \cup {[text |-> Assignment(<<"k">>, DoubledQuote(q, <<"a">>, <<"b", "c">>).s),
             key |-> <<"k">>,
             x |-> DoubledQuote(q, <<"a">>, <<"b", "c">>).x] : q \in {"\"", "'"}}

\* "k""j" = 1\n   'k''j' = 1\n
QuoteKeyCases ==
    {[text |-> Assignment(DoubledQuote(q, <<"k">>, <<"j">>).s, <<"1">>),
      key |-> DoubledQuote(q, <<"k">>, <<"j">>).x] : q \in {"\"", "'"}}

\* k {\n"a""b"\n}\n   k {\n'a''b'\n}\n
QuoteElementCases ==
    {[text |-> <<"k", " ", "{", "\n">> \o DoubledQuote(q, <<"a">>, <<"b">>).s
                 \o <<"\n", "}", "\n">>,
      x |-> DoubledQuote(q, <<"a">>, <<"b">>).x] : q \in {"\"", "'"}}

QuoteTexts ==
    {c.text : c \in QuoteValueCases} \cup {c.text : c \in QuoteKeyCases}
      \cup {c.text : c \in QuoteElementCases}

(* The documents that open with '{': those of TEST_F(luco_test,            *)
(* invalid_luco), and a '{' that nothing follows.                          *)
BraceTexts ==
    {<<"{", "i", "n", "v", "a", "l", "i", "d", "}">>,
     <<"{", "{", "}">>,
     <<"{", "\"", "n", "a", "m", "e", "\"", ":", "}">>,
     <<"{", "\"", "a", "g", "e", "\"", ":", "3", " ", "5", "}">>,
     <<"{", "\"", "s", "m", "o", "l", "\"", ":", "t", "r", "u", " ", "e", "}">>,
     <<"{", "\"", "\"", "k", "e", "y", "\"", ":", "n", "u", " ", "l", "l", "}">>,
     <<"{", "}">>,
     <<"{", "\n", "1", "\n", "}", "\n">>,
     <<" ", "{", "\n", "a", " ", "=", " ", "1", "\n", "}", "\n">>,
     <<"{", "\n">>,
     <<"{">>,
     <<" ", "{">>,
     <<"{", "a", " ", "=", " ", "1">>}

\* the documents whose last line has no newline: a = 5   a = cat   k {\n1
UnterminatedTexts ==
    {<<"a", " ", "=", " ", "5">>,
     <<"a", " ", "=", " ", "c", "a", "t">>,
     <<"b", " ", "=", " ", "1", "\n", "a", " ", "=", " ", "5">>}

\* the documents that end with something open: a '{', a key, an '=', a
\* quoted string
OpenTexts ==
    {<<"k", " ", "{", "\n", "1", "\n">>,
     <<"k", " ", "{", "\n", "a", " ", "=", " ", "1", "\n">>,
     <<"k", " ", "{", "\n">>,
     <<"k", "\n">>,
     <<"k", " ", "=", "\n">>,
     <<"k", " ", "=", " ", "\"", "a", "b", "c", "\n">>}

\* the documents with a '}' that no '{' matches
UnmatchedTexts ==
    {<<"}", "\n">>,
     <<"}">>,
     <<"k", " ", "=", " ", "1", "\n", "}", "\n">>,
     <<"k", " ", "{", "\n", "1", "\n", "}", "\n", "}", "\n">>,
     <<"k", " ", "{", "\n", "a", " ", "=", " ", "1", "\n", "}", "\n", "}", "\n">>}

\* nested comments: the bodies are the texts over a letter and the two
\* braces whose braces pair up
MaxBody == 4

CommentChars == {"a", "{", "}"}

\* the depth of the braces after s, from the depth n; -1 once a '}' has
\* closed more than was open
RECURSIVE depth_after(_, _)
depth_after(s, n) ==
    IF n < 0 \/ s = <<>> THEN n
    ELSE depth_after(Tail(s), IF Head(s) = "{" THEN n + 1
                              ELSE IF Head(s) = "}" THEN n - 1 ELSE n)

CommentBodies == {s \in SeqsUpTo(CommentChars, MaxBody) : depth_after(s, 0) = 0}

\* '#{ body }'
NestedComment(body) == <<"#", "{", " ">> \o body \o <<" ", "}">>

\* a document that is one nested comment
CommentOnly(body) == NestedComment(body) \o <<"\n">>

\* an entry after the '}' that ends the comment, on the same line or on
\* the next one
CommentThenEntry(body, sep) == NestedComment(body) \o sep \o Assignment(<<"k">>, <<"1">>)

\* a nested comment that the input leaves open, the last line ended or not
CommentOpen(body, end) == <<"#", "{", " ">> \o body \o end

LineEnds == {<<>>, <<"\n">>}

CommentTexts ==
    {CommentOnly(b) : b \in CommentBodies}
        \cup {CommentThenEntry(b, sep) : b \in CommentBodies, sep \in {<<" ">>, <<"\n">>}}
        \cup {CommentOpen(b, e) : b \in CommentBodies, e \in LineEnds}

\* the documents whose raw value is empty or a quote when it is committed
EmptyValueTexts ==
    {Assignment(<<"k">>, <<"\"">>),
     Assignment(<<"k">>, <<"\"", "\"">>),
     Assignment(<<"k">>, <<"'", "'">>),
     Assignment(<<"k">>, <<"\"", " ", "\"">>),
     <<"k", " ", "{", "\n", "\"", "\n", "}", "\n">>,
     <<"k", " ", "{", "\n", "\"", "\"", "\n", "}", "\n">>}

(* A quoted key or value, blanks, and then one more character.             *)
Blanks == {<<>>, <<" ">>, <<" ", "\t">>}

\* characters that are not a blank, a newline, '=' or '{', nor the '\' of a
\* value that goes on on the next line
Followers == {"b", "1", "}", "#", ","}

\* k = "a"<blanks><c>\n
ValueThen(q, blanks, c) ==
    <<"k", " ", "=", " ">> \o Quoted(q, <<"a">>) \o blanks \o c \o <<"\n">>

\* "k"<blanks><c> = 1\n
KeyThen(q, blanks, c) ==
    Quoted(q, <<"k">>) \o blanks \o c \o <<" ", "=", " ", "1", "\n">>

\* "k"<blanks>{\n1\n}\n
KeyThenBracket(q, blanks) ==
    Quoted(q, <<"k">>) \o blanks \o <<"{", "\n", "1", "\n", "}", "\n">>

Quotes == {"\"", "'"}

AfterQuoteTexts ==
    {ValueThen(q, b, c) : q \in Quotes, b \in Blanks,
                          c \in {<<>>} \cup {<<x>> : x \in Followers \cup {"=", "{"}}}
      \cup {KeyThen(q, b, c) : q \in Quotes, b \in Blanks,
                               c \in {<<>>} \cup {<<x>> : x \in Followers}}
      \cup {KeyThenBracket(q, b) : q \in Quotes, b \in Blanks}

(* A value of two segments, ab and cd, the first ended by a backslash at   *)
(* the end of its line.                                                    *)
\* ab\<newline><lead>cd, each segment quoted by q and r
Segments(q, lead, r) ==
    Written(q, <<"a", "b">>) \o <<"\\", "\n">> \o lead \o Written(r, <<"c", "d">>)

Leads == {<<>>, <<" ", " ">>, <<"\t">>}

\* k = ab\<newline>cd\n
ContinuedEntry(q, lead, r) ==
    <<"k", " ", "=", " ">> \o Segments(q, lead, r) \o <<"\n">>

\* k {\n<before>ab\<newline>cd\n}\n: the elements of before, one on a line,
\* and then the element of two segments
ContinuedElement(before, q, lead, r) ==
    <<"k", " ", "{", "\n">> \o before \o Segments(q, lead, r) \o <<"\n", "}", "\n">>

Befores == {<<>>, <<"1", "\n">>}

\* q = "" is no quote
QuoteForms == {""} \cup Quotes

ContinuedTexts ==
    {ContinuedEntry(q, l, r) : q \in QuoteForms, l \in Leads, r \in QuoteForms}
      \cup {ContinuedElement(b, q, l, r) :
               b \in Befores, q \in QuoteForms, l \in Leads, r \in QuoteForms}

\* objects and arrays in objects and in arrays
NestedTexts ==
    {<<"a", " ", "{", "\n", "b", " ", "{", "\n", "c", " ", "=", " ", "1", "\n", "}", "\n", "d", " ", "=", " ", "2", "\n", "}", "\n">>,
     <<"a", " ", "{", "\n", "1", "\n", "{", "\n", "b", " ", "=", " ", "1", "\n", "}", "\n", "}", "\n">>,
     <<"a", " ", "{", "\n", "1", "\n", "{", "\n", "2", "\n", "3", "\n", "}", "\n", "4", "\n", "}", "\n">>,
     <<"a", " ", "{", "\n", "b", " ", "{", "\n", "1", "\n", "2", "\n", "}", "\n", "}", "\n", "e", " ", "=", " ", "1", "\n">>,
     <<"a", " ", "{", "\n", "b", " ", "=", " ", "{", "\n", "c", " ", "=", " ", "1", "\n", "}", "\n", "}", "\n">>,
     <<"a", " ", "=", " ", "{", "\n", "b", " ", "=", " ", "1", "\n", "}", "\n", "c", " ", "=", " ", "2", "\n">>,
     <<"a", " ", "{", "\n", "{", "\n", "1", "\n", "}", "\n", "}", "\n">>,
     <<"a", " ", "{", "\n", "b", " ", "{", "\n", "c", " ", "{", "\n", "d", " ", "=", " ", "1", "\n", "}", "\n", "}", "\n", "}", "\n">>,
     <<"a", " ", "{", "\n", "1", "\n", "{", "\n", "{", "\n", "2", "\n", "}", "\n", "}", "\n", "}", "\n">>}

(* An array whose last element begins with a doubled special character:    *)
(* `ones` elements 1 stand before it, each on a line of its own, and the   *)
(* blanks of `lead` stand before the pair on its line.                     *)
MaxOnes == 2

Pairs == {"{", "\"", "'", "\\"}

RECURSIVE OneLines(_)
OneLines(n) == IF n = 0 THEN <<>> ELSE <<"1", "\n">> \o OneLines(n - 1)

DoubledAt(ones, lead, c) ==
    <<"k", " ", "{", "\n">> \o OneLines(ones) \o lead
      \o <<c, c, "a", "\n", "}", "\n">>

PositionLeads == {<<>>, <<" ">>, <<" ", " ">>}

PositionTexts ==
    {DoubledAt(ones, lead, c) : ones \in 1..MaxOnes, lead \in PositionLeads, c \in Pairs}

----------------------------------------------------------------------------
(* The parser and the serializer on their own: the client holds a text,    *)
(* or constructs a and b, and then parses and serializes.                  *)

\* k = "a<c><c>b": a quoted string with a doubled structural character
Doubled(c) == <<"k", " ", "=", " ", "\"", "a", c, c, "b", "\"", "\n">>
DoubledTexts == {Doubled(c) : c \in special_chars}

\* the texts the client parses, "{invalid}" and "{{}" among them
Texts ==
    DoubledTexts \cup LexemeTexts \cup QuotedTexts \cup LineTexts
      \cup BracketTexts \cup QuoteTexts \cup BraceTexts
      \cup UnterminatedTexts \cup OpenTexts \cup UnmatchedTexts \cup CommentTexts \cup EmptyValueTexts \cup AfterQuoteTexts \cup ContinuedTexts \cup LongTexts \cup PositionTexts
      \cup {<<"k", " ", "=", " ", "1", "\n">>,
            <<"k", " ", "=", " ", "\"", "1", "\"", "\n">>,
            <<"k", " ", "=", " ", "s", "\n">>,
            <<"k", " ", "=", " ", "o", "n", "\n">>,
            <<"k", " ", "=", " ", "1", ".", "5", "\n">>,
            <<"k", " ", "=", " ", ".", "\n">>,
            <<"k", " ", "=", " ", "1">>,
            <<"k", " ", "=", "\n">>,
            <<"k", " ", "{", "\n", "1", "\n", "}", "\n">>,
            <<"k", " ", "{", "\n", "m", " ", "=", " ", "1", "\n", "}", "\n">>,
            <<"k", " ", "{", "}", "\n">>,
            <<"k", " ", "{", "\n", "a", "\\", "\n", "}", "\n">>,
            <<"#", " ", "c", "\n", "k", " ", "=", " ", "1", "\n">>,
            <<"#", "{", "\n">>,
            <<"}", "\n">>,
            <<"{", "\n">>,
            <<"k", "=", "m", " ", "=", " ", "1", "\n">>,
            <<"{", "i", "n", "v", "a", "l", "i", "d", "}">>,
            <<"{", "{", "}">>,
            <<>>}

(* luco::node h = {{"k", "1"}};  h = {{"k", a}};  h = {1};  ...: strings,  *)
(* integers, booleans and nulls in objects and arrays                      *)
DocOperands ==
    {Operand("list", "object", LNull, l) :
        l \in {<<>>,
               <<Pair(KeySeq[1], ItemLit(LInt(1)))>>,
               <<Pair(KeySeq[1], ItemLit(LStr(<<"s">>)))>>,
               <<Pair(KeySeq[1], ItemLit(LStr(<<"1">>)))>>,
               <<Pair(KeySeq[1], ItemLit(LStr(<<"o", "n">>)))>>,
               <<Pair(KeySeq[2], ItemLit(LStr(<<"s", " ", "t">>)))>>,
               <<Pair(KeySeq[1], ItemLit(LBool(TRUE))), Pair(KeySeq[2], ItemLit(LNull))>>,
               <<Pair(KeySeq[1], ItemNode(Ref("a", "self", <<>>, 0)))>>}}
      \cup {Operand("list", "array", LNull, l) :
              l \in {<<>>,
                     <<ItemLit(LInt(1))>>,
                     <<ItemLit(LStr(<<"s">>))>>,
                     <<ItemNode(Ref("a", "self", <<>>, 0))>>}}

\* the calls the client makes on the parser and the serializer
MaxRounds == 3

CanParse == calls < MaxRounds /\ last.outcome \notin {"terminate", "diverges"}

InitParse ==
    /\ \/ /\ text \in Texts
          /\ roots = Fresh.roots
          /\ heap = Fresh.heap
       \/ /\ text = <<>>
          /\ \E oa \in DocOperands, ob \in DocOperands :
                /\ \A i \in 1..Len(oa.items) : oa.items[i].t # "node"
                /\ \E s \in {Built(oa, ob)} :
                      /\ s.n <= MaxCells
                      /\ roots = s.roots
                      /\ heap = s.heap
    /\ vals = [v \in ValNames |-> EmptyValue]
    /\ doc = NoDoc
    /\ scan = NoScan
    /\ last = Call("node(T)", "ok", "none")
    /\ calls = 0

(* What a call of the parser can end as.  Undefined behaviour (top() of an *)
(* empty stack, a failed assert) is any of: abort, an error, a document.   *)
Returns(p) ==
    IF p.outcome = "undefined"
    THEN {Parsed("terminate", "none", ObjTree),
          Parsed("error", "parsing_error", ObjTree),
          Parsed("ok", "none", ObjTree)}
    ELSE {p}

ParserReturn(op, p) ==
    /\ doc' = p
    /\ last' = Call(op, p.outcome, p.err)
    /\ calls' = calls + 1
    /\ UNCHANGED <<roots, heap, vals, text, scan>>

\* auto ok = luco::parser::try_parse(text);
TryParse ==
    /\ CanParse
    /\ \E p \in Returns(try_parse(text)) : ParserReturn("try_parse", p)

\* luco::node n = luco::parser::parse(text);
Parse ==
    /\ CanParse
    /\ \E p \in Returns(parse(text)) : ParserReturn("parse", p)

SerializerReturn(s) ==
    /\ text' = s
    /\ last' = Call("dump_to_string", "ok", "none")
    /\ calls' = calls + 1
    /\ UNCHANGED <<roots, heap, vals, doc, scan>>

\* text = h.dump_to_string();
DumpToString(h) ==
    /\ CanParse
    /\ SerializerReturn(dump_to_string(TreeOf(heap, roots[h])))

\* text = n.dump_to_string();   n the node the parser returned
DumpParsed ==
    /\ CanParse
    /\ doc.outcome = "ok"
    /\ SerializerReturn(dump_to_string(doc.tree))

NextParse ==
    \/ TryParse
    \/ Parse
    \/ \E h \in Handles : DumpToString(h)
    \/ DumpParsed

SpecParse == InitParse /\ [][NextParse]_vars

----------------------------------------------------------------------------
(* parser::try_parse(const std::string&) one step at a time: the outer     *)
(* loop adds a character of the text to data.line, the inner loop hands    *)
(* each character of a chunk to parser::parsing.  scan.d is the            *)
(* parsing_data, scan.k the index of the outer loop (from 1), scan.pc the  *)
(* loop the call is in.                                                    *)

\* every text of at most MaxText characters over ScanChars, and the
\* documents the client parses
MaxText == 4

ScanChars == {"k", "=", "{", "}", "#", "\"", "\\", "\n"}

ScanTexts == SeqsUpTo(ScanChars, MaxText) \cup Texts \cup NestedTexts

InitScan ==
    /\ text \in ScanTexts
    /\ roots = Fresh.roots
    /\ heap = Fresh.heap
    /\ vals = [v \in ValNames |-> EmptyValue]
    /\ doc = NoDoc
    /\ last = Call("node(T)", "ok", "none")
    /\ calls = 0
    /\ scan = [pc |-> "outer", d |-> NewData, k |-> 1]

\* the call returns p
ScanReturn(p, d) ==
    /\ doc' = p
    /\ last' = Call("try_parse", p.outcome, p.err)
    /\ calls' = calls + 1
    /\ scan' = [scan EXCEPT !.pc = "done", !.d = d]
    /\ UNCHANGED <<roots, heap, vals, text>>

ScanStep(pc, d, k) ==
    /\ scan' = [pc |-> pc, d |-> d, k |-> k]
    /\ UNCHANGED <<roots, heap, vals, last, calls, text, doc>>

\* data.line += raw_json[i]; the chunk is read when it ends in '\n', ','
\* or '}'
AddChar ==
    /\ scan.pc = "outer"
    /\ scan.k <= Len(text)
    /\ \E d \in {[scan.d EXCEPT !.line = Append(@, text[scan.k])]} :
          IF text[scan.k] \in {"\n", ",", "}"}
          THEN ScanStep("inner", [d EXCEPT !.i = 0], scan.k)
          ELSE ScanStep("outer", d, scan.k + 1)

\* ok = luco::parser::parsing(data, syntax); the index goes back by one
\* when shift_index_backward_for_oldnewline is set, and the for adds one
ParseChar ==
    /\ scan.pc = "inner"
    /\ scan.d.i < Len(scan.d.line)
    /\ \E p \in {parsing(scan.d)} :
          IF p.r = "error"
          THEN \E q \in Returns(IF p.err \in {"terminate", "undefined"}
                                THEN Parsed(p.err, "none", ObjTree)
                                ELSE Parsed("error", p.err, ObjTree)) :
                  ScanReturn(q, p.d)
          ELSE IF p.d.shift
          THEN ScanStep("inner", [p.d EXCEPT !.shift = FALSE], scan.k)
          ELSE ScanStep("inner", [p.d EXCEPT !.i = @ + 1], scan.k)

\* data.line.clear(); data.line_number++;
EndOfChunk ==
    /\ scan.pc = "inner"
    /\ scan.d.i >= Len(scan.d.line)
    /\ ScanStep("outer", [scan.d EXCEPT !.line = <<>>, !.line_number = @ + 1],
                scan.k + 1)

\* after the loop: a nested comment on top of the hierarchy is an error
EndOfText ==
    /\ scan.pc = "outer"
    /\ scan.k > Len(text)
    /\ \E q \in Returns(IF scan.d.hier = <<>> THEN Parsed("undefined", "none", ObjTree)
                        ELSE IF Top(scan.d.hier) = "nested_comment"
                        THEN Parsed("error", "parsing_error", ObjTree)
                        ELSE Parsed("ok", "none", scan.d.root)) :
          ScanReturn(q, scan.d)

NextScan == AddChar \/ ParseChar \/ EndOfChunk \/ EndOfText

SpecScan == InitScan /\ [][NextScan]_vars

\* the for loops run on: a step is taken while one is enabled
FairScan == SpecScan /\ WF_vars(NextScan)


----------------------------------------------------------------------------
(* A client that holds a text, has a file of the same content, and gives   *)
(* the one to try_parse(const std::string&) and the path of the other to   *)
(* try_parse(const std::filesystem::path&).                                *)

\* contents where the chunks of the string parser and the lines of the
\* file parser end at different characters: a doubled '}' or ',' inside a
\* line, a last line with no '\n'
ChunkTexts ==
    {<<"k", " ", "=", " ", "a", "}", "}", "b", "\n">>,
     <<"k", " ", "=", " ", "\"", "a", "}", "}", "\"", "\n">>,
     <<"k", " ", "=", " ", "}", "}", "\n">>,
     <<"k", " ", "=", " ", "a", ",", ",", "b", "\n">>,
     <<"k", " ", "=", " ", "a", ",", "b", "\n">>,
     <<"k", " ", "{", "\n", "1", ",", "2", "\n", "}", "\n">>,
     <<"k", " ", "{", "\n", "1", "\n", "}">>,
     <<"a", " ", "=", " ", "5">>,
     <<"a", " ", "=", " ", "5", "\n", "b", " ", "=", " ", "6">>,
     <<"#", "{", " ", "a">>}

FileTexts == Texts \cup NestedTexts \cup ChunkTexts

InitFiles ==
    /\ text \in FileTexts
    /\ roots = Fresh.roots
    /\ heap = Fresh.heap
    /\ vals = [v \in ValNames |-> EmptyValue]
    /\ doc = NoDoc
    /\ scan = NoScan
    /\ last = Call("node(T)", "ok", "none")
    /\ calls = 0

\* auto ok = luco::parser::try_parse(path);   the file at path holds text
TryParsePath ==
    /\ CanParse
    /\ \E p \in Returns(try_parse_file(text)) : ParserReturn("try_parse(path)", p)

NextFiles == TryParse \/ TryParsePath

SpecFiles == InitFiles /\ [][NextFiles]_vars
----------------------------------------------------------------------------
(* Properties of the tree.  A property of a call is stated over the call's *)
(* function, in every state in which the client can make the call.         *)

\* every node there is: the client's variables and the children in the heap
AllNodes ==
    {roots[h] : h \in Handles}
      \cup UNION {SeqRange(CellNodes(heap[a])) : a \in Addr}

Count(b) == IF b THEN 1 ELSE 0

(* C1: after any sequence of constructions, set / assignment, insert,      *)
(* push_back, += and +, every node satisfies exactly one of is_object(),   *)
(* is_array() and is_value().                                              *)
C1_KindExclusive ==
    \A n \in AllNodes :
        Count(is_object(n)) + Count(is_array(n)) + Count(is_value(n)) = 1

\* a call has built a tree that holds a node of each kind
C1_Witness ==
    /\ calls > 0
    /\ last.outcome = "ok"
    /\ \E n1 \in AllNodes, n2 \in AllNodes, n3 \in AllNodes :
           is_object(n1) /\ is_array(n2) /\ is_value(n3)

(* C2: a default-constructed node is an empty object: is_object() holds,   *)
(* as_object() succeeds with size 0, and as_array() and as_value() fail    *)
(* with a luco::error.                                                     *)
C2_DefaultIsEmptyObject ==
    CanCall =>
        \A h \in Handles :
            LET e == node_ctor(roots, heap, h)
                n == e.roots[h]
            IN  /\ e.outcome = "ok"
                /\ is_object(n)
                /\ Raise(node_try_as(n, "object")).outcome = "ok"
                /\ size(e.heap, n) = 0
                /\ Raise(node_try_as(n, "array")) = Thrown("wrong_type")
                /\ Raise(node_try_as(n, "value")) = Thrown("wrong_type")

\* the client default-constructed a node over one that was no object
C2_Witness ==
    /\ calls = MaxCalls
    /\ last = Call("node()", "ok", "none")
    /\ \E h \in Handles : is_object(roots[h]) /\ size(heap, roots[h]) = 0
    /\ \E h \in Handles : ~is_object(roots[h])

\* the tree a scalar makes: a value node holding it
Leaf(v) == [kind |-> "value", val |-> v, obj |-> EmptyMap, arr |-> <<>>]

\* the tree an element of a container denotes, `d` levels of it
ItemTree(hp, pre, it, d) ==
    IF it.t = "node" THEN Tree(hp, Deref(pre.roots, pre.heap, it.r), d)
    ELSE Leaf(set_state(it.x))

\* the item a key/value container holds under a key
ItemAt(items, key) == items[CHOOSE i \in 1..Len(items) : items[i].key = key]

(* The tree an argument x denotes once the call has returned: the scalar,  *)
(* the elements in order, the entries by key, or the node as it then is.   *)
InputTree(hp, pre, src) ==
    CASE src.t = "lit" -> Leaf(set_state(src.x))
      [] src.t = "node" -> TreeOf(hp, Deref(pre.roots, pre.heap, src.r))
      [] src.t = "seq" ->
           [kind |-> "array", val |-> EmptyValue, obj |-> EmptyMap,
            arr |-> [i \in 1..Len(src.items) |->
                        ItemTree(hp, pre, src.items[i], MaxCells)]]
      [] src.t = "map" ->
           [kind |-> "object", val |-> EmptyValue, arr |-> <<>>,
            obj |-> [k \in {src.items[i].key : i \in 1..Len(src.items)} |->
                        ItemTree(hp, pre, ItemAt(src.items, k), MaxCells)]]

\* the arguments of a call are ones the client can pass in this state
CanPass(r, src) == ValidRef(roots, heap, r) /\ ValidSrc(roots, heap, src)

(* C3: for every object node n, key k and value v, n.insert(k, v)          *)
(* succeeds, and after it n.contains(k) holds and n.at(k) is structurally  *)
(* equal to v: same kind, same scalar or same children.                    *)
C3_InsertThenGet ==
    CanCall =>
        \A r \in Refs, k \in Keys, src \in Srcs :
            CanPass(r, src) /\ is_object(Deref(roots, heap, r)) =>
                LET e == insert(roots, heap, r, k, src)
                    n == Deref(e.roots, e.heap, r)
                    c == at_key(e.heap, n, k)
                IN  /\ e.outcome = "ok"
                    /\ contains(e.heap, n, k)
                    /\ c.outcome = "ok"
                    /\ TreeOf(e.heap, c.res) = InputTree(e.heap, State(roots, heap), src)

(* C4: object keys stay unique: inserting a key that already exists        *)
(* replaces its value, leaves the number of keys unchanged and leaves      *)
(* every other key's value unchanged.                                      *)
C4_OverwriteKeepsOthers ==
    CanCall =>
        \A r \in Refs, k \in Keys, src \in Srcs :
            /\ CanPass(r, src)
            /\ contains(heap, Deref(roots, heap, r), k)
            => LET n == Deref(roots, heap, r)
                   e == insert(roots, heap, r, k, src)
                   m == Deref(e.roots, e.heap, r)
               IN  /\ e.outcome = "ok"
                   /\ DOMAIN e.heap[m.ptr].obj = DOMAIN heap[n.ptr].obj
                   /\ TreeOf(e.heap, e.heap[m.ptr].obj[k])
                        = InputTree(e.heap, State(roots, heap), src)
                   /\ \A k2 \in DOMAIN heap[n.ptr].obj \ {k} :
                          TreeOf(e.heap, e.heap[m.ptr].obj[k2])
                            = TreeOf(heap, heap[n.ptr].obj[k2])

(* C5: insert(key, x) on a node that is not an object, and push_back(x)    *)
(* on a node that is not an array, return an error of kind wrong_type and  *)
(* leave the node, its kind and its contents, unchanged.                   *)
C5_WrongKindRejected ==
    CanCall =>
        \A r \in Refs, src \in Srcs :
            CanPass(r, src) =>
                /\ ~is_object(Deref(roots, heap, r)) =>
                       \A k \in Keys :
                           insert(roots, heap, r, k, src)
                             = Effect(roots, Ext(heap), "error", "wrong_type")
                /\ ~is_array(Deref(roots, heap, r)) =>
                       push_back(roots, heap, r, src)
                         = Effect(roots, Ext(heap), "error", "wrong_type")

\* insert was refused on an array that holds an element
C5_Witness ==
    /\ calls = MaxCalls
    /\ last = Call("insert", "error", "wrong_type")
    /\ \E h \in Handles : is_array(roots[h]) /\ size(heap, roots[h]) > 0

(* C6: try_at(index) on an array node with index >= size returns an error  *)
(* of kind key_not_found as a value; it never throws, aborts or crashes.   *)
C6_TryAtOutOfRange ==
    CanCall =>
        \A r \in Refs, i \in Indices :
            /\ ValidRef(roots, heap, r)
            /\ is_array(Deref(roots, heap, r))
            /\ i >= size(heap, Deref(roots, heap, r))
            => try_at_index(heap, Deref(roots, heap, r), i) = Err("key_not_found")

\* at(key) on an object without the key, at(index) past the end of an array
C7_Missing ==
    CanCall =>
        \A r \in Refs :
            ValidRef(roots, heap, r) =>
                LET n == Deref(roots, heap, r)
                IN  /\ is_object(n) =>
                           \A k \in Keys \ DOMAIN heap[n.ptr].obj :
                               at_key(heap, n, k) = Thrown("key_not_found")
                    /\ is_array(n) =>
                           \A i \in Indices :
                               i >= size(heap, n) =>
                                   at_index(heap, n, i) = Thrown("key_not_found")

\* a call of at that failed left the variables and the heap as they were
C7_Frame ==
    /\ calls' = calls + 1
    /\ last'.op \in {"at(key)", "at(index)"}
    /\ last'.outcome = "throw"
    => roots' = roots /\ heap' = heap

(* C7: at(key) on an object without that key and at(index) on an array     *)
(* with index >= size fail with an error of kind key_not_found, and the    *)
(* failed access does not add the key or change the container.             *)
C7_AtMissingFails == [](C7_Missing) /\ [][C7_Frame]_vars

\* at(key) failed on an object that holds another key
C7_Witness ==
    /\ calls = MaxCalls
    /\ last = Call("at(key)", "throw", "key_not_found")
    /\ \E h \in Handles : is_object(roots[h]) /\ size(heap, roots[h]) = 1

\* the casts that match a scalar of a kind
CastsOf(t) ==
    CASE t = "string" -> {"string"}
      [] t = "integer" -> {"integer", "number"}
      [] t = "double_t" -> {"double", "number"}
      [] t = "boolean" -> {"boolean"}
      [] t = "null" -> {"null"}
      [] OTHER -> {}

\* a cast that does not match the kind of a scalar node ends in wrong_type
C8_Mismatch ==
    CanCall =>
        \A r \in Refs :
            ValidRef(roots, heap, r) /\ is_value(Deref(roots, heap, r)) =>
                LET n == Deref(roots, heap, r)
                IN  \A c \in Casts \ CastsOf(type(heap[n.ptr].val)) :
                        /\ node_try_as_cast(heap, n, c) = Err("wrong_type")
                        /\ Raise(node_try_as_cast(heap, n, c)) = Thrown("wrong_type")

\* a cast that failed left the variables and the heap as they were
C8_Frame ==
    /\ calls' = calls + 1
    /\ last'.op \in {"try_as", "as"}
    /\ last'.outcome # "ok"
    => roots' = roots /\ heap' = heap

(* C8: a scalar cast that does not match the stored kind (as_integer on a  *)
(* string node, try_as_number on a boolean, ...) yields an error of kind   *)
(* wrong_type, and the failed cast leaves the node's kind and payload      *)
(* unchanged.                                                              *)
C8_CastMismatchFails == [](C8_Mismatch) /\ [][C8_Frame]_vars

\* a cast failed on a boolean node
C8_Witness ==
    /\ calls = MaxCalls
    /\ last = Call("try_as", "error", "wrong_type")
    /\ \E h \in Handles :
           is_value(roots[h]) /\ type(heap[roots[h].ptr].val) = "boolean"

\* the alternative of the payload that goes with a tag
AltOf(t) ==
    CASE t = "string" -> "string"
      [] t = "integer" -> "int64"
      [] t = "double_t" -> "double"
      [] t = "boolean" -> "bool"
      [] t = "null" -> "null_type"
      [] t = "none" -> "monostate"
      [] OTHER -> "no alternative"

(* C9: after any sequence of constructions, copies and set_value_type      *)
(* calls, of the typed form and of the (string, value_type) form, a        *)
(* scalar's type() tag agrees with the alternative held in its payload.    *)
C9_TagAgreesWithPayload ==
    \A v \in ValNames : vals[v].value.alt = AltOf(type(vals[v]))

(* C10: self-assignment n = n, and n.set(n), leave n structurally          *)
(* unchanged, for a node of any kind.                                      *)
C10_SelfAssign ==
    CanCall =>
        \A r \in Refs :
            ValidRef(roots, heap, r) =>
                /\ operator_assign(roots, heap, r, SrcNode(r))
                     = Effect(roots, Ext(heap), "ok", "none")
                /\ set(roots, heap, r, SrcNode(r))
                     = Effect(roots, Ext(heap), "ok", "none")

\* the client assigned an array that holds an element to itself
C10_Witness ==
    /\ calls = MaxCalls
    /\ last = Call("operator=(self)", "ok", "none")
    /\ \E h \in Handles : is_array(roots[h]) /\ size(heap, roots[h]) > 0

\* the references to two nodes the client can add
CanAdd(r1, r2) == ValidRef(roots, heap, r1) /\ ValidRef(roots, heap, r2)

(* C11: for two objects a and b, a + b is a new object whose keys are the  *)
(* keys of a and of b, with b's value under every key of b and a's value   *)
(* under the others; for two arrays, a + b is the elements of a followed   *)
(* by those of b, of size size(a) + size(b).  Neither operand is changed.  *)
C11_PlusObjectsAndArrays ==
    CanCall =>
        \A r1 \in Refs, r2 \in Refs :
            CanAdd(r1, r2) =>
                LET hp == Ext(heap)
                    n1 == Deref(roots, heap, r1)
                    n2 == Deref(roots, heap, r2)
                    p == plus(hp, n1, n2)
                    o1 == hp[n1.ptr].obj
                    o2 == hp[n2.ptr].obj
                    a1 == hp[n1.ptr].arr
                    a2 == hp[n2.ptr].arr
                IN  /\ is_object(n1) /\ is_object(n2) =>
                        /\ p.outcome = "ok"
                        /\ is_object(p.node)
                        /\ hp[p.node.ptr].kind = "free"
                        /\ DOMAIN p.heap[p.node.ptr].obj = DOMAIN o1 \cup DOMAIN o2
                        /\ \A k \in DOMAIN o1 \cup DOMAIN o2 :
                               TreeOf(p.heap, p.heap[p.node.ptr].obj[k])
                                 = IF k \in DOMAIN o2 THEN TreeOf(hp, o2[k])
                                   ELSE TreeOf(hp, o1[k])
                    /\ is_array(n1) /\ is_array(n2) =>
                        /\ p.outcome = "ok"
                        /\ is_array(p.node)
                        /\ hp[p.node.ptr].kind = "free"
                        /\ size(p.heap, p.node) = size(hp, n1) + size(hp, n2)
                        /\ \A i \in 1..(Len(a1) + Len(a2)) :
                               TreeOf(p.heap, p.heap[p.node.ptr].arr[i])
                                 = IF i <= Len(a1) THEN TreeOf(hp, a1[i])
                                   ELSE TreeOf(hp, a2[i - Len(a1)])
                    /\ TreeOf(p.heap, n1) = TreeOf(hp, n1)
                    /\ TreeOf(p.heap, n2) = TreeOf(hp, n2)

(* a = a + b was made on two objects that held different values under the  *)
(* same key, or on two arrays that each held an element                    *)
C11_Witness ==
    /\ last = Call("operator+", "ok", "none")
    /\ \/ /\ is_object(roots["a"]) /\ is_object(roots["b"])
          /\ roots["a"].ptr # roots["b"].ptr
          /\ KeySeq[1] \in DOMAIN heap[roots["a"].ptr].obj
          /\ KeySeq[1] \in DOMAIN heap[roots["b"].ptr].obj
          /\ heap[roots["a"].ptr].obj[KeySeq[1]] = heap[roots["b"].ptr].obj[KeySeq[1]]
       \/ /\ is_array(roots["a"]) /\ is_array(roots["b"])
          /\ size(heap, roots["a"]) = 2
          /\ size(heap, roots["b"]) = 1

(* C12: for objects a and b with no key in common, a + b and b + a are     *)
(* structurally equal.                                                     *)
C12_PlusCommutesOnDisjointKeys ==
    CanCall =>
        \A r1 \in Refs, r2 \in Refs :
            LET hp == Ext(heap)
                n1 == Deref(roots, heap, r1)
                n2 == Deref(roots, heap, r2)
                p12 == plus(hp, n1, n2)
                p21 == plus(hp, n2, n1)
            IN  /\ CanAdd(r1, r2)
                /\ is_object(n1) /\ is_object(n2)
                /\ DOMAIN hp[n1.ptr].obj \cap DOMAIN hp[n2.ptr].obj = {}
                => /\ p12.outcome = "ok"
                   /\ p21.outcome = "ok"
                   /\ TreeOf(p12.heap, p12.node) = TreeOf(p21.heap, p21.node)

\* a = a + b was made on an object with the key k only and one with m only
C12_Witness ==
    /\ last = Call("operator+", "ok", "none")
    /\ is_object(roots["a"]) /\ is_object(roots["b"])
    /\ DOMAIN heap[roots["a"].ptr].obj = Keys
    /\ DOMAIN heap[roots["b"].ptr].obj = {KeySeq[2]}
    /\ heap[roots["a"].ptr].obj[KeySeq[2]] = heap[roots["b"].ptr].obj[KeySeq[2]]
    /\ is_value(heap[roots["a"].ptr].obj[KeySeq[1]])

(* C13: a + b fails with wrong_type when a and b are of different node     *)
(* kinds; for two scalars it is the concatenation when both are strings,   *)
(* the numeric sum when both are numbers (integer or double), and fails    *)
(* with wrong_type for every other pairing of scalars.                     *)
C13_PlusScalars ==
    CanCall =>
        \A r1 \in Refs, r2 \in Refs :
            CanAdd(r1, r2) =>
                LET hp == Ext(heap)
                    n1 == Deref(roots, heap, r1)
                    n2 == Deref(roots, heap, r2)
                    v1 == hp[n1.ptr].val
                    v2 == hp[n2.ptr].val
                    p == plus(hp, n1, n2)
                    res == p.heap[p.node.ptr].val
                IN  /\ node_type(n1) # node_type(n2) =>
                        p.outcome = "throw" /\ p.err = "wrong_type"
                    /\ is_value(n1) /\ is_value(n2) =>
                        IF is_string(v1) /\ is_string(v2)
                        THEN /\ p.outcome = "ok"
                             /\ is_value(p.node)
                             /\ is_string(res)
                             /\ res.value.s = v1.value.s \o v2.value.s
                        ELSE IF is_number(v1) /\ is_number(v2)
                        THEN /\ p.outcome = "ok"
                             /\ is_value(p.node)
                             /\ is_number(res)
                             /\ AsNumber(res) = AsNumber(v1) + AsNumber(v2)
                        ELSE p.outcome = "throw" /\ p.err = "wrong_type"

(* C14: no aliasing across the client's variables: after r = a + b, after  *)
(* a node was constructed or set from another node or a container, or      *)
(* after a subtree was inserted into a parent, an insert, a push_back or a *)
(* set made through one variable is not observable through the other.     *)
C14_NoAliasing ==
    CanCall =>
        \A r \in Refs, g \in Handles, k \in Keys, src \in Srcs :
            CanPass(r, src) /\ g # r.h =>
                LET before == TreeOf(heap, roots[g])
                    after(e) == TreeOf(e.heap, e.roots[g])
                IN  /\ after(insert(roots, heap, r, k, src)) = before
                    /\ after(push_back(roots, heap, r, src)) = before
                    /\ after(set(roots, heap, r, src)) = before

(* C15: set(x) and operator=(x) reshape the node whatever its kind was: a  *)
(* scalar x makes it a value holding x, a sequence container an array of   *)
(* the container's elements in order, a string-keyed container an object   *)
(* with exactly the container's keys, and a node makes it structurally     *)
(* equal to that node; nothing of the previous contents remains.  x is    *)
(* the argument as the client passed it: its tree when the call is made.   *)
C15_SetReshapes ==
    CanCall =>
        \A r \in Refs, src \in Srcs :
            CanPass(r, src) =>
                LET expected == InputTree(Ext(heap), State(roots, heap), src)
                    now(e) == TreeOf(e.heap, Deref(e.roots, e.heap, r))
                    e1 == set(roots, heap, r, src)
                    e2 == operator_assign(roots, heap, r, src)
                IN  /\ e1.outcome = "ok" /\ now(e1) = expected
                    /\ e2.outcome = "ok" /\ now(e2) = expected

(* C16: assigning or set-ting through the reference returned by at(k) or   *)
(* try_at(k) changes the child stored under k in the parent, which a later *)
(* at(k) on the parent shows, and leaves every other key of the parent     *)
(* unchanged.                                                              *)
C16_AssignThroughReference ==
    CanCall =>
        \A h \in Handles, k \in Keys, src \in Srcs :
            LET r == Ref(h, "key", k, 0)
                obj == heap[roots[h].ptr].obj
                changed(e) ==
                    LET c == at_key(e.heap, e.roots[h], k)
                        m == e.heap[e.roots[h].ptr].obj
                    IN  /\ e.outcome = "ok"
                        /\ at_key(heap, roots[h], k).outcome = "ok"
                        /\ try_at_key(heap, roots[h], k).outcome = "ok"
                        /\ c.outcome = "ok"
                        /\ TreeOf(e.heap, c.res)
                             = InputTree(e.heap, State(roots, heap), src)
                        /\ DOMAIN m = DOMAIN obj
                        /\ \A k2 \in DOMAIN obj \ {k} :
                               TreeOf(e.heap, m[k2]) = TreeOf(heap, obj[k2])
            IN  CanPass(r, src) =>
                    /\ changed(set(roots, heap, r, src))
                    /\ changed(operator_assign(roots, heap, r, src))

\* a fixed-notation text without the zeros it ends with
RECURSIVE StripZeros(_)
StripZeros(s) ==
    IF s # <<>> /\ s[Len(s)] = "0" THEN StripZeros(SubSeq(s, 1, Len(s) - 1)) ELSE s

(* C19: stringify() of a double is its fixed six-decimal representation    *)
(* with exactly the trailing zeros after the decimal point removed, and    *)
(* with "0" appended if the decimal point would be last: no non-zero digit *)
(* and no digit left of the decimal point is dropped.                      *)
C19_StringifyDouble ==
    \A v \in ValNames :
        is_double(vals[v]) =>
            LET cut == StripZeros(to_string(vals[v].value.n))
            IN  stringify(vals[v])
                  = IF cut[Len(cut)] = "." THEN cut \o <<"0">> ELSE cut


\* the tree is built from objects, arrays, strings, integers, booleans, nulls
RECURSIVE NoFloat(_)
NoFloat(t) ==
    IF t.kind = "value"
    THEN type(t.val) \in {"string", "integer", "boolean", "null"}
    ELSE /\ \A k \in DOMAIN t.obj : NoFloat(t.obj[k])
         /\ \A j \in 1..Len(t.arr) : NoFloat(t.arr[j])

(* C17: parse(serialize(n)) is structurally equal to n for every node n    *)
(* built from objects, arrays, strings, integers, booleans and nulls       *)
(* (serialize is dump_to_string, parse the string parser): the parser      *)
(* returns a tree, and the tree is n's.  Stated for a root object, with    *)
(* nested objects and arrays and with strings that spell a number or a     *)
(* boolean.                                                                *)
C17_RoundTrip ==
    \A h \in Handles :
        is_object(roots[h]) /\ NoFloat(TreeOf(heap, roots[h])) =>
            try_parse(dump_to_string(TreeOf(heap, roots[h])))
              = Parsed("ok", "none", TreeOf(heap, roots[h]))

(* C18: a string value written with a doubled structural character inside *)
(* quotes ("a""b", and the same with {, }, =, ' and \) is unchanged by     *)
(* parse -> serialize -> parse: the first parse returns a tree, and the    *)
(* parse of its serialization returns the same tree.                       *)
C18_DoubledSurvive ==
    text \in DoubledTexts =>
        /\ try_parse(text).outcome = "ok"
        /\ try_parse(dump_to_string(try_parse(text).tree)) = try_parse(text)

(* C20: the throwing and the non-throwing forms agree: for every text,     *)
(* try_parse returns a tree or an error; parse throws exactly when         *)
(* try_parse returns an error, an error of the same kind, and otherwise    *)
(* both return equal trees; and as_T() on a node throws exactly when       *)
(* try_as_T() returns an error.                                            *)
C20_FormsAgree ==
    /\ try_parse(text).outcome \in {"ok", "error"}
    /\ (parse(text).outcome = "throw") = (try_parse(text).outcome = "error")
    /\ try_parse(text).outcome = "error" => parse(text).err = try_parse(text).err
    /\ try_parse(text).outcome = "ok" =>
          parse(text).outcome = "ok" /\ parse(text).tree = try_parse(text).tree
    /\ \A h \in Handles, cast \in Casts :
          /\ (Raise(node_try_as_cast(heap, roots[h], cast)).outcome = "throw")
               = (node_try_as_cast(heap, roots[h], cast).outcome = "error")
          /\ Raise(node_try_as_cast(heap, roots[h], cast)).err
               = node_try_as_cast(heap, roots[h], cast).err

\* the document { key: v }
OneEntry(key, t) == [ObjTree EXCEPT !.obj = [k \in {key} |-> t]]

\* the parser returned the document { key: <a scalar> }
ParsedScalar(key) ==
    /\ doc.outcome = "ok"
    /\ doc.tree.kind = "object"
    /\ DOMAIN doc.tree.obj = {key}
    /\ doc.tree.obj[key].kind = "value"

\* the kind the type inference is to give a lexeme
InferredKind(l) ==
    IF l = <<"n", "u", "l", "l">> THEN "null"
    ELSE IF l \in {<<"t", "r", "u", "e">>, <<"o", "n">>,
                   <<"f", "a", "l", "s", "e">>, <<"o", "f", "f">>} THEN "boolean"
    ELSE IF l # <<>> /\ \A j \in 1..Len(l) : l[j] \in Digits THEN "integer"
    ELSE IF /\ \A j \in 1..Len(l) : l[j] \in Digits \cup {"."}
            /\ Cardinality({j \in 1..Len(l) : l[j] = "."}) = 1 THEN "double_t"
    ELSE "string"

(* C21: type inference on a lexeme: "null" gives null; "true"/"on" give    *)
(* the boolean true and "false"/"off" the boolean false; a non-empty       *)
(* lexeme of digits gives an integer; one of digits and exactly one '.'    *)
(* gives a double; every other lexeme (with a sign, two dots or a letter)  *)
(* gives the string that holds the lexeme.  Stated on k = <lexeme>: the    *)
(* parser returns the document with k of that kind.                        *)
C21_TypeInference ==
    \A l \in Lexemes :
        last.op = "try_parse" /\ text = Assignment(<<"k">>, l) =>
            /\ ParsedScalar(<<"k">>)
            /\ type(doc.tree.obj[<<"k">>].val) = InferredKind(l)
            /\ InferredKind(l) = "string" =>
                  doc.tree.obj[<<"k">>].val = set_state(LStr(l))
            /\ InferredKind(l) = "boolean" =>
                  doc.tree.obj[<<"k">>].val
                    = set_state(LBool(l \in {<<"t", "r", "u", "e">>, <<"o", "n">>}))

(* C22: a value written in quotes is committed as a string whatever its    *)
(* text: key = "5", key = "true", key = "null", key = "1.5" give a string,  *)
(* never an integer, a boolean, null or a double.                          *)
C22_QuotedIsString ==
    \A q \in {"\"", "'"}, s \in QuotedWords :
        last.op = "try_parse"
          /\ text = Assignment(<<"k", "e", "y">>, Quoted(q, s)) =>
            /\ ParsedScalar(<<"k", "e", "y">>)
            /\ doc.tree.obj[<<"k", "e", "y">>].val = set_state(LStr(s))

\* the object the lines of a document denote: an entry for each key, with
\* the scalar of the last line of that key
LinesTree(ls) ==
    [ObjTree EXCEPT !.obj =
        [k \in {ls[j].key.s : j \in 1..Len(ls)} |->
            ValTree(set_state(
                ls[CHOOSE j \in 1..Len(ls) :
                      /\ ls[j].key.s = k
                      /\ \A i \in (j + 1)..Len(ls) : ls[i].key.s # k].value.x))]]

(* C23: a document that is a sequence of lines key = scalar (key and value *)
(* quoted or not, spaces or tabs around '=' and after the value) parses to *)
(* a root object with exactly one entry for each distinct key: the key is  *)
(* the key's text without the blanks around it, the value is of the kind   *)
(* its text denotes (name = "cat" a string, age = 5 an integer,            *)
(* smol = true a boolean).                                                 *)
C23_KeyValueLines ==
    last.op = "try_parse" =>
        \A ls \in LineDocs :
            text = RenderDoc(ls) => doc = Parsed("ok", "none", LinesTree(ls))

\* the client parsed name = "cat"\nage = 5\nsmol = true\n
C23_Witness ==
    /\ last.op = "try_parse"
    /\ text = RenderDoc(CatLines)
    /\ doc.outcome = "ok"
    /\ DOMAIN doc.tree.obj = {<<"n", "a", "m", "e">>, <<"a", "g", "e">>, <<"s", "m", "o", "l">>}

\* the child the braces of a document denote
BracketTree(b) ==
    IF b.kind = "array"
    THEN [ArrTree EXCEPT !.arr = [j \in 1..Len(b.elems) |->
                                     ValTree(set_state(b.elems[j].x))]]
    ELSE LinesTree(b.lines)

(* C24: after key { the kind of the child is decided by what follows the   *)
(* first lexeme inside the braces: a newline makes the child an array with *)
(* the lexeme its first element, '=' makes it an object with the lexeme    *)
(* its first key.  The elements of the array are committed in the order of *)
(* the input, one for each line, each of the kind its text denotes: the    *)
(* six lines "meow", "hi", 5, 5.0, true, null give the six scalars string,  *)
(* string, integer, double, boolean, null.                                 *)
C24_BracketKind ==
    last.op = "try_parse" =>
        \A b \in BracketDocs :
            text = RenderBracket(b) =>
                doc = Parsed("ok", "none",
                             OneEntry(<<"a", "r", "r", "a", "y">>, BracketTree(b)))

\* the client parsed array {\n "meow"\n "hi"\n 5\n 5.0\n true\n null\n}\n
C24_Witness ==
    /\ last.op = "try_parse"
    /\ text = RenderBracket(Bracket("array", <<" ">>, SixElements, <<>>))
    /\ doc.outcome = "ok"
    /\ Len(doc.tree.obj[<<"a", "r", "r", "a", "y">>].arr) = 6

(* C25: inside a quoted string a doubled matching quote contributes one    *)
(* literal quote and does not end the string, and a single matching quote  *)
(* ends the string even when the same quote came earlier in the string:    *)
(* "key" = "val""ue" gives key the string val"ue.  Stated for a quoted     *)
(* value, a quoted key and a quoted element of an array.                   *)
C25_DoubledQuote ==
    last.op = "try_parse" =>
        /\ \A c \in QuoteValueCases :
              text = c.text =>
                  doc = Parsed("ok", "none",
                               OneEntry(c.key, ValTree(set_state(LStr(c.x)))))
        /\ \A c \in QuoteKeyCases :
              text = c.text =>
                  doc = Parsed("ok", "none",
                               OneEntry(c.key, ValTree(set_state(LInt(1)))))
        /\ \A c \in QuoteElementCases :
              text = c.text =>
                  doc = Parsed("ok", "none",
                               OneEntry(<<"k">>,
                                        [ArrTree EXCEPT !.arr =
                                            <<ValTree(set_state(LStr(c.x)))>>]))

\* the first character of the text that is not a blank is '{'
OpensWithBrace(s) == SkipSpace(s) # <<>> /\ Head(SkipSpace(s)) = "{"

(* C26: malformed documents are rejected: for every text whose first       *)
(* character that is not a blank is '{' at the root of the document        *)
(* ({invalid}, {{}, {"name":}, {"age":3 5}, {"smol":tru e},                 *)
(* {""key":nu ll} among them) try_parse returns an error and parse throws; *)
(* none returns a tree.                                                    *)
C26_BraceRejected ==
    OpensWithBrace(text) =>
        /\ last.op = "try_parse" => doc.outcome = "error"
        /\ last.op = "parse" => doc.outcome = "throw"

(* C27: at the end of the input a pending unquoted lexeme is committed as  *)
(* if a newline had followed it: parsing a = 5 without a newline at its    *)
(* end gives the tree that parsing a = 5\n gives.                          *)
C27_FlushAtEnd ==
    last.op = "try_parse" /\ text \in UnterminatedTexts =>
        doc = try_parse(text \o <<"\n">>)

\* data.hierarchy when the loop of try_parse has read the text
hierarchy_at_end(raw_json) == feed(NewData, raw_json, 1).d.hier

(* C28: a parse returns a tree only if at the end of the input the         *)
(* hierarchy is back at the one object frame it started with; an input    *)
(* that ends with an open '{', a pending key, a pending '=' or a quoted    *)
(* string without its end is reported as an error.                         *)
C28_EndsClosed ==
    last.op = "try_parse" =>
        /\ doc.outcome = "ok" => hierarchy_at_end(text) = <<"object">>
        /\ text \in OpenTexts => doc.outcome = "error"

(* C29: a '}' that is not escaped and has no matching '{' (a '}' at the    *)
(* root of the document, one '}' more than '{') ends the parse with an     *)
(* error of the kind parsing_error, returned as a value, and no stack is   *)
(* read while it is empty.                                                 *)
C29_UnmatchedBrace ==
    last.op = "try_parse" /\ text \in UnmatchedTexts =>
        /\ doc = Parsed("error", "parsing_error", ObjTree)
        /\ try_parse(text).outcome # "undefined"

(* C30: a nested comment '#{ ... }' whose body holds paired '{' '}' is     *)
(* skipped: a document that is only such a comment parses to the empty     *)
(* root object; the comment ends at the '}' that closes its own '{', so    *)
(* an entry after that '}' is read; and an input that ends inside a        *)
(* nested comment gives an error of the kind parsing_error.                *)
C30_NestedComment ==
    last.op = "try_parse" =>
        \A b \in CommentBodies :
            /\ text = CommentOnly(b) => doc = Parsed("ok", "none", ObjTree)
            /\ \A sep \in {<<" ">>, <<"\n">>} :
                   text = CommentThenEntry(b, sep) =>
                       doc = Parsed("ok", "none", OneEntry(<<"k">>, ValTree(set_state(LInt(1)))))
            /\ \A e \in LineEnds :
                   text = CommentOpen(b, e) =>
                       doc = Parsed("error", "parsing_error", ObjTree)

\* the call stepped through returns what try_parse is defined to return
ScanAgrees == scan.pc = "done" => doc \in Returns(try_parse(text))

\* no scalar of the tree is of the type none
RECURSIVE NoEmptyScalar(_)
NoEmptyScalar(t) ==
    IF t.kind = "value"
    THEN type(t.val) \in {"string", "integer", "double_t", "boolean", "null"}
    ELSE /\ \A k \in DOMAIN t.obj : NoEmptyScalar(t.obj[k])
         /\ \A j \in 1..Len(t.arr) : NoEmptyScalar(t.arr[j])

(* C31: parsing produces no scalar of the type none: every scalar of a     *)
(* tree that try_parse or parse returned is a string, an integer, a        *)
(* double, a boolean or null.                                              *)
C31_NoEmptyScalar ==
    last.op \in {"try_parse", "parse"} /\ doc.outcome = "ok" => NoEmptyScalar(doc.tree)

\* the parser committed an empty raw value: k = "\n gives the string of
\* no character
C31_Witness ==
    /\ last.op = "try_parse"
    /\ text = Assignment(<<"k">>, <<"\"">>)
    /\ doc.outcome = "ok"
    /\ DOMAIN doc.tree.obj = {<<"k">>}
    /\ doc.tree.obj[<<"k">>] = ValTree(set_state(LStr(<<>>)))

(* C32: after the closing quote of a quoted value only blanks and then a   *)
(* newline are accepted, after the closing quote of a quoted key only      *)
(* blanks and then '=' or '{'; any other character there makes the parse   *)
(* fail with an error of the kind parsing_error.                           *)
C32_AfterClosingQuote ==
    last.op = "try_parse" =>
        \A q \in Quotes, b \in Blanks :
            /\ text = ValueThen(q, b, <<>>) =>
                   doc = Parsed("ok", "none", OneEntry(<<"k">>, ValTree(set_state(LStr(<<"a">>)))))
            /\ text = KeyThen(q, b, <<>>) =>
                   doc = Parsed("ok", "none", OneEntry(<<"k">>, ValTree(set_state(LInt(1)))))
            /\ text = KeyThenBracket(q, b) => doc.outcome = "ok"
            /\ \A c \in Followers \cup {"=", "{"} :
                   text = ValueThen(q, b, <<c>>) =>
                       doc = Parsed("error", "parsing_error", ObjTree)
            /\ \A c \in Followers :
                   text = KeyThen(q, b, <<c>>) =>
                       doc = Parsed("error", "parsing_error", ObjTree)

\* the string abcd as a scalar of the tree
JoinedTree == ValTree(set_state(LStr(<<"a", "b", "c", "d">>)))

\* the array of the elements of before and then abcd
JoinedArray(before) ==
    [ArrTree EXCEPT !.arr = (IF before = <<>> THEN <<>>
                             ELSE <<ValTree(set_state(LInt(1)))>>) \o <<JoinedTree>>]

(* C33: a backslash at the end of a line continues the value on the next   *)
(* line: the blanks the next line begins with are skipped; an unquoted     *)
(* value goes on at the first character that is not a blank, a quoted one  *)
(* only at the quote it was opened with, and any other character there is  *)
(* an error of the kind parsing_error; the scalar committed is the         *)
(* segments joined.  Stated for the value of an entry and for an element   *)
(* of an array, the first one or a later one.                              *)
C33_Continuation ==
    last.op = "try_parse" =>
        \A l \in Leads :
            /\ \A q \in QuoteForms :
                  /\ text = ContinuedEntry(q, l, q) =>
                         doc = Parsed("ok", "none", OneEntry(<<"k">>, JoinedTree))
                  /\ \A b \in Befores :
                         text = ContinuedElement(b, q, l, q) =>
                             doc = Parsed("ok", "none", OneEntry(<<"k">>, JoinedArray(b)))
            /\ \A q \in Quotes : \A r \in QuoteForms \ {q} :
                  /\ text = ContinuedEntry(q, l, r) =>
                         doc = Parsed("error", "parsing_error", ObjTree)
                  /\ \A b \in Befores :
                         text = ContinuedElement(b, q, l, r) =>
                             doc = Parsed("error", "parsing_error", ObjTree)

\* parser::parsing is about to read the character at scan.d.i
AtCharacter == scan.pc = "inner" /\ scan.d.i < Len(scan.d.line)

\* the '}' of a transient bracket with a raw value pending: what fails there
\* is an assert, not a stack
pending_at_bracket(d) ==
    is_registered_token(d, "transient_bracket") /\ d.raw # RawPair(<<>>, "none")

\* reading the character at d.i has a handler read top() of a stack that
\* is empty
stack_underflow(d) ==
    /\ ~pending_at_bracket(d)
    /\ \E p \in {parsing(d)} : p.r = "error" /\ p.err = "undefined"

(* C34: during a parse no stack is read or popped while it is empty: no    *)
(* handler, at any character of any text, reads top() of data.hierarchy,   *)
(* data.keys or data.luco_objs when that stack is empty, and               *)
(* data.hierarchy is not empty when try_parse reads its top after the      *)
(* loop.                                                                   *)
C34_NoEmptyStack ==
    /\ AtCharacter => ~stack_underflow(scan.d)
    /\ scan.pc = "outer" /\ scan.k > Len(text) => scan.d.hier # <<>>

\* the frames of data.hierarchy that stand for an open container
IsContainer(frame) == frame \in {"object", "array"}
Containers(hier) == SelectSeq(hier, IsContainer)

\* the call has not returned
Parsing == scan.pc \in {"inner", "outer"}

Agree(p, q) ==
    IF p.outcome = "ok" THEN q.outcome = "ok" /\ q.tree = p.tree
    ELSE q.outcome # "ok"

(* C36: the string parser and the file parser agree on the same content:   *)
(* what try_parse(path) returns for a file that holds the text is what     *)
(* try_parse(std::string) can return for the text, both failing or both    *)
(* returning equal trees.                                                  *)
C36_ParsersAgree ==
    last.op = "try_parse(path)" =>
        \E p \in Returns(try_parse(text)) : Agree(doc, p)

\* the texts k = <lexeme>\n, the lexeme a run of the characters of numbers
\* and words, or a run of digits that is no long long
ValueTexts == LexemeTexts \cup LongTexts

(* C37: committing a value never escapes as an exception or an abort: for  *)
(* every lexeme, "." alone and the runs of digits too long for a 64-bit    *)
(* integer among them, try_parse returns a tree or an error value.         *)
C37_ValueNeverEscapes ==
    last.op = "try_parse" /\ text \in ValueTexts =>
        last.outcome \in {"ok", "error"}

(* C38: try_parse terminates on every finite input: a character is read    *)
(* again through shift_index_backward_for_oldnewline a bounded number of   *)
(* times, so the loops pass the end of every line and the call returns.    *)
C38_Terminates == <>(scan.pc = "done")

\* the array of `ones` elements 1 and the string of c and a
RECURSIVE OnesTrees(_)
OnesTrees(n) ==
    IF n = 0 THEN <<>> ELSE <<ValTree(set_state(LInt(1)))>> \o OnesTrees(n - 1)

PairArray(ones, c) ==
    [ArrTree EXCEPT !.arr = OnesTrees(ones) \o <<ValTree(set_state(LStr(<<c, "a">>)))>>]

(* C39: a doubled special character is one literal character wherever the  *)
(* pair stands: at the first column of its line or after blanks, and on    *)
(* whatever line.                                                          *)
C39_EscapeAnywhere ==
    \A ones \in 1..MaxOnes : \A lead \in PositionLeads : \A c \in Pairs :
        last.op = "try_parse" /\ text = DoubledAt(ones, lead, c) =>
            /\ doc.outcome = "ok"
            /\ doc.tree = OneEntry(<<"k">>, PairArray(ones, c))


\* a comment is open
InComment(d) == d.hier # <<>> /\ Top(d.hier) \in {"comment", "nested_comment"}

\* data.hierarchy below the comment frames on its top
RECURSIVE BelowComment(_)
BelowComment(hier) ==
    IF hier # <<>> /\ Top(hier) \in {"comment", "nested_comment"}
    THEN BelowComment(SubSeq(hier, 1, Len(hier) - 1))
    ELSE hier

\* a quoted key or a quoted value is being accumulated
Quoted12 == {"qouted_string_1", "qouted_string_2"}
Accumulating(d) ==
    \/ d.raw.second \in Quoted12
    \/ d.keys # <<>> /\ Top(d.keys).second \in Quoted12

\* a call of parser::parsing in which a comment starts, goes on or ends
CommentStep ==
    /\ scan.pc = "inner"
    /\ scan'.pc = "inner"
    /\ InComment(scan.d) \/ InComment(scan'.d)

(* C40: a comment leaves the parse state as it found it: from the '#' that *)
(* starts it to the character that ends it keys, raw_value and luco_objs   *)
(* are unchanged and the hierarchy below the comment frame is what it was  *)
(* before the '#'; and a '#' starts a comment only at top level, not while *)
(* a quoted key or value is being accumulated.                             *)
C40_CommentFrame ==
    [][CommentStep =>
          /\ scan'.d.keys = scan.d.keys
          /\ scan'.d.raw = scan.d.raw
          /\ scan'.d.objs = scan.d.objs
          /\ BelowComment(scan'.d.hier) = BelowComment(scan.d.hier)
          /\ ~InComment(scan.d) => ~Accumulating(scan.d)]_vars

====
